---- MODULE Spec2Model ----
(***************************************************************************)
(* Model of cuckoo/common/abstracts.py.                                    *)
(*                                                                         *)
(* Configuration (lines 31-114) is the registry that merges configuration  *)
(* fragments of malware families into one record per family.               *)
(*                                                                         *)
(* Python values are modelled as records of one shape, so that any two of  *)
(* them can be compared as Python compares them (a string never equals a   *)
(* list, two lists are equal when they hold equal elements in order):      *)
(*   None          [kind |-> "none", s |-> "",  items |-> <<>>]            *)
(*   "abc"         [kind |-> "str",  s |-> "abc", items |-> <<>>]          *)
(*   ["a", "b"]    [kind |-> "list", s |-> "",  items |-> <<"a", "b">>]    *)
(* A dict is a function whose DOMAIN is the set of its keys.  A fragment   *)
(* (the argument of Configuration.add) is a dict too, but since add walks  *)
(* it with entry.items() it is modelled as the sequence of its (key,       *)
(* value) pairs in iteration order, with pairwise distinct keys.           *)
(***************************************************************************)
EXTENDS Integers, Sequences, FiniteSets, TLC

\* entries   self.entries: the fragments passed to add, in call order
\* order     self.order: the family names, in order of first submission
\* families  self.families: family name -> family record
\* errlog    the log.error calls of add (key, stored value, refused value)
\* raised    the exception of the last call, "none" when it returned
\* last      the last call: its name (op), its arguments (arg) and what it
\*           returned (ret)
VARIABLES entries, order, families, errlog, raised, last

\* The fields of a Signature instance (lines 853-861) and its class
\* attribute markcount (line 843), which a signature class may override.
VARIABLES marks, markcount, pid, cid, call

\* A machine manager: the machinery operation in progress or last run with
\* the libvirt calls it made (proc), and the machine statuses recorded in
\* the database through set_status (db); and the position of
\* Machinery.shutdown in its loop over the running machines (shut); and
\* the libvirt domain handles of LibVirtMachinery (vms); and the position
\* of Machinery.initialize in the loop of _initialize_check (check); and
\* the machine manager options (options); and the rows of the machine
\* table of the database, which self.machines() lists (rows).
VARIABLES proc, db, shut, vms, check, options, rows

\* The event router of one analysis and its signature instances.
VARIABLE router

cfgVars == <<entries, order, families, errlog>>
sigVars == <<marks, markcount, pid, cid, call>>
macVars == <<proc, db, shut, vms, check, options, rows>>
extVars == <<proc, db, router, shut, vms, check, options, rows>>
vars == <<entries, order, families, errlog, raised, last,
          marks, markcount, pid, cid, call, proc, db, router, shut, vms,
          check, options, rows>>

\* Number of Configuration.add calls explored in one behaviour.
MaxAdds == 3

----------------------------------------------------------------------------
\* Python values.

None == [kind |-> "none", s |-> "", items |-> <<>>]
\* An integer, written in decimal.
Num(x) == [kind |-> "int", s |-> x, items |-> <<>>]
Str(x) == [kind |-> "str", s |-> x, items |-> <<>>]
List(xs) == [kind |-> "list", s |-> "", items |-> xs]

\* bool(value): None, "" and [] are false, everything else is true.
Truthy(v) ==
    \/ v.kind = "str" /\ v.s # ""
    \/ v.kind = "list" /\ v.items # <<>>

\* value in list
In(v, list) == \E i \in 1..Len(list) : list[i] = v

\* Every key of the dict refers to the one value.
PutShared(d, k, v) == [x \in (DOMAIN d) \cup {k} |-> v]

\* d[k] = v on a dict.
Put(d, k, v) == [x \in (DOMAIN d) \cup {k} |-> IF x = k THEN v ELSE d[x]]

EmptyDict == [x \in {} |-> None]

\* cuckoo.misc.make_list: a list is copied, any other object becomes a
\* one-element list.
make_list(obj) ==
    IF obj.kind = "list"
    THEN [i \in 1..Len(obj.items) |-> Str(obj.items[i])]
    ELSE <<obj>>

----------------------------------------------------------------------------
\* Fragments.

Pair(key, value) == [k |-> key, v |-> value]

HasKey(entry, key) == \E i \in 1..Len(entry) : entry[i].k = key

\* entry[key]
Lookup(entry, key) == entry[CHOOSE i \in 1..Len(entry) : entry[i].k = key].v

\* entry["family"], as the dict key it is used for.
FamilyOf(entry) == Lookup(entry, "family").s

----------------------------------------------------------------------------
\* class Configuration

skip == {"family", "extra"}
keywords1 == {"type", "version", "magic", "campaign"}
keywords2 == {"cnc", "url", "mutex", "user_agent", "referrer"}
keywords3 == {"des3key", "rc4key", "xorkey", "pubkey", "privkey", "iv"}

\* Keys are used as submitted.
mappingIdentity(key) == key

\* self.mapping.get(key, key)
mapping(key) ==
    CASE key = "cncs" -> "cnc"
      [] key = "urls" -> "url"
      [] key = "user-agent" -> "user_agent"
      [] OTHER -> key

\* Every element that is true is appended, stored or not.
RECURSIVE AppendAll(_, _)
AppendAll(list, values) ==
    IF values = <<>> THEN list
    ELSE AppendAll(IF Truthy(Head(values)) THEN Append(list, Head(values))
                   ELSE list,
                   Tail(values))

\* The loop of lines 84-86: every element that is true and not yet in the
\* list is appended.
RECURSIVE AppendNew(_, _)
AppendNew(list, values) ==
    IF values = <<>> THEN list
    ELSE LET value == Head(values) IN
         AppendNew(IF Truthy(value) /\ ~In(value, list)
                   THEN Append(list, value) ELSE list,
                   Tail(values))

\* The last value wins.
MergeSingleLastWins(st, key, value) ==
    [st EXCEPT !.family = Put(@, key, value)]

\* Lines 73-80: a single entry value.  st is [family, log].
MergeSingle(st, key, value) ==
    IF key \in DOMAIN st.family /\ Truthy(st.family[key])
       /\ st.family[key] # value
    THEN [st EXCEPT !.log = Append(@, [key |-> key, old |-> st.family[key],
                                       new |-> value])]
    ELSE [st EXCEPT !.family = Put(@, key, value)]

\* The list is started afresh by every fragment.
MergeListReplace(st, key, value) ==
    [st EXCEPT !.family = Put(@, key, AppendNew(<<>>, make_list(value)))]

\* Lines 81-86: a multiple entry value.
MergeList(st, key, value) ==
    LET cur == IF key \in DOMAIN st.family THEN st.family[key] ELSE <<>>
    IN  [st EXCEPT !.family = Put(@, key, AppendNew(cur, make_list(value)))]

\* The value is appended, stored or not.
MergeKeyNoDedup(st, key, value) ==
    LET keys == IF "key" \in DOMAIN st.family THEN st.family["key"]
                ELSE EmptyDict
        cur == IF key \in DOMAIN keys THEN keys[key] ELSE <<>>
    IN  [st EXCEPT !.family = Put(@, "key", Put(keys, key, Append(cur, value)))]

\* Lines 87-93: an encryption key value.
MergeKey(st, key, value) ==
    LET keys == IF "key" \in DOMAIN st.family THEN st.family["key"]
                ELSE EmptyDict
        cur == IF key \in DOMAIN keys THEN keys[key] ELSE <<>>
        new == IF In(value, cur) THEN cur ELSE Append(cur, value)
    IN  [st EXCEPT !.family = Put(@, "key", Put(keys, key, new))]

\* The list is overwritten by every new value.
MergeExtraOverwrite(st, key, value) ==
    LET extra == IF "extra" \in DOMAIN st.family THEN st.family["extra"]
                 ELSE EmptyDict
    IN  [st EXCEPT !.family = Put(@, "extra", Put(extra, key, <<value>>))]

\* The value is appended although the list holds it.
MergeExtraNoDedup(st, key, value) ==
    LET extra == IF "extra" \in DOMAIN st.family THEN st.family["extra"]
                 ELSE EmptyDict
    IN  IF key \notin DOMAIN extra
        THEN [st EXCEPT !.family = Put(@, "extra", Put(extra, key, <<value>>))]
        ELSE [st EXCEPT !.family =
                 Put(@, "extra", Put(extra, key, Append(extra[key], value)))]

\* Lines 94-99: any other value.
MergeExtra(st, key, value) ==
    LET extra == IF "extra" \in DOMAIN st.family THEN st.family["extra"]
                 ELSE EmptyDict
    IN  IF key \notin DOMAIN extra
        THEN [st EXCEPT !.family = Put(@, "extra", Put(extra, key, <<value>>))]
        ELSE IF ~In(value, extra[key])
        THEN [st EXCEPT !.family =
                 Put(@, "extra", Put(extra, key, Append(extra[key], value)))]
        ELSE st

\* Empty values are merged like any other.
MergeItemEmptyToo(st, key0, value) ==
    IF key0 \in skip THEN st
    ELSE LET key == mapping(key0) IN
         IF key \in keywords1 THEN MergeSingle(st, key, value)
         ELSE IF key \in keywords2 THEN MergeList(st, key, value)
         ELSE IF key \in keywords3 THEN MergeKey(st, key, value)
         ELSE MergeExtra(st, key, value)

\* No key is skipped.
MergeItemNoSkip(st, key0, value) ==
    IF ~Truthy(value) THEN st
    ELSE LET key == mapping(key0) IN
         IF key \in keywords1 THEN MergeSingle(st, key, value)
         ELSE IF key \in keywords2 THEN MergeList(st, key, value)
         ELSE IF key \in keywords3 THEN MergeKey(st, key, value)
         ELSE MergeExtra(st, key, value)

\* One iteration of the loop of lines 69-99.
MergeItem(st, key0, value) ==
    IF key0 \in skip \/ ~Truthy(value) THEN st
    ELSE LET key == mapping(key0) IN
         IF key \in keywords1 THEN MergeSingle(st, key, value)
         ELSE IF key \in keywords2 THEN MergeList(st, key, value)
         ELSE IF key \in keywords3 THEN MergeKey(st, key, value)
         ELSE MergeExtra(st, key, value)

\* The loop ends at the first conflict (break for continue in line 79).
RECURSIVE MergeItemsUntilConflict(_, _)
MergeItemsUntilConflict(st, items) ==
    IF items = <<>> THEN st
    ELSE LET next == MergeItem(st, Head(items).k, Head(items).v)
         IN  IF Len(next.log) > Len(st.log) THEN next
             ELSE MergeItemsUntilConflict(next, Tail(items))

\* The loop of lines 69-99 over entry.items().
RECURSIVE MergeItems(_, _)
MergeItems(st, items) ==
    IF items = <<>> THEN st
    ELSE MergeItems(MergeItem(st, Head(items).k, Head(items).v), Tail(items))

\* The family is appended to order by every fragment.
NewOrderAlways(ord, fams, name) == Append(ord, name)

\* Lines 62-66: the family is appended to order when it has no record yet.
NewOrder(ord, fams, name) ==
    IF name \notin DOMAIN fams THEN Append(ord, name) ELSE ord

\* The new record does not hold the family name.
FamilyRecordUnnamed(fams, name, entry) ==
    IF name \in DOMAIN fams THEN fams[name]
    ELSE EmptyDict

\* Lines 62-67: the record the fragment is merged into.
FamilyRecord(fams, name, entry) ==
    IF name \in DOMAIN fams THEN fams[name]
    ELSE [x \in {"family"} |-> Lookup(entry, "family")]

\* Signature.markcount
DefaultMarkcount == 50

\* A call: its name, its arguments, its return value.
Call(op, arg, ret) == [op |-> op, arg |-> arg, ret |-> ret]

\* Configuration.__init__
InitConfiguration ==
    /\ entries = <<>>
    /\ order = <<>>
    /\ families = EmptyDict
    /\ errlog = <<>>

\* Signature.__init__ of a signature class whose markcount is in caps.
InitSignature(caps) ==
    /\ marks = <<>>
    /\ pid = None
    /\ cid = None
    /\ call = None
    /\ markcount \in caps

\* Signature instances, in evaluation order.
Instances == <<"A", "B">>

\* The number of events in the stream of one analysis.
MaxEvents == 4

\* The event kinds delivered: an API call (on_call) and a process change
\* (on_process).
EventKinds == {"call", "process"}

\* The event streams of an analysis.
Streams == [1..MaxEvents -> EventKinds]

\* A stream of API calls only.
CallStream == [e \in 1..MaxEvents |-> "call"]

\* The router before the first event of one of the streams: every instance is active, nothing
\* was delivered.  pos is the event being delivered and turn the instance
\* it is offered to next; stopped[i] is the call event at which instance i
\* asked for no more calls, 0 if it has not.
InitRouter(streams) ==
    router \in {[stream |-> st, phase |-> "events", pos |-> 1, turn |-> 1,
                 received |-> [i \in DOMAIN Instances |-> <<>>],
                 stopped |-> [i \in DOMAIN Instances |-> 0],
                 completed |-> {}, matched |-> {}, errored |-> {},
                 faults |-> <<>>, findings |-> <<>>] : st \in streams}

\* The machines of the machine manager.
Labels == {"vm1", "vm2"}

\* The position of a machinery operation: its name and machine, where it
\* stands (pc), the local waitme, the status last polled (current) and the
\* arguments states of _wait_status, the configured timeout it reads, the
\* calls it has made to libvirt so far, and the message of the exception
\* it raised.
Proc(op, label, pc, waitme, current, states, timeout, calls, msg) ==
    [op |-> op, label |-> label, pc |-> pc, waitme |-> waitme,
     current |-> current, states |-> states, timeout |-> timeout,
     calls |-> calls, msg |-> msg]

\* The position of Machinery.shutdown: where it stands (pc), the list
\* self.running() gave it, the machines of that list stop was called for,
\* those a warning was logged for, and the configured timeout.
Shut(pc, running, tried, warned, timeout) ==
    [pc |-> pc, running |-> running, tried |-> tried, warned |-> warned,
     timeout |-> timeout]

\* self.vms: no such attribute before _initialize_check has assigned it
\* ("absent"), the dict of the handles of the machines (line 445,
\* "dict"), or None once LibVirtMachinery.shutdown has freed them (line
\* 536, "None").
Vms(kind, labels) == [kind |-> kind, labels |-> labels]

\* The position of Machinery.initialize in _initialize_check: where it
\* stands (pc), the list self.machines() gave it, the number of machines
\* the loop is done with, the names _list returned (configured_vms), the
\* configured timeout, and the calls made before the stop in progress.
Check(pc, machines, done, listed, timeout) ==
    [pc |-> pc, machines |-> machines, done |-> done, listed |-> listed,
     timeout |-> timeout, calls |-> <<>>]

\* self.options: None (line 156), or the options given to set_options,
\* of which machines is the list of the machines configured.
Options(given, machines) == [given |-> given, machines |-> machines]

\* Machinery.__init__ has returned (lines 155-162; LibVirtMachinery
\* lines 419-426): options is None, the machine table is cleaned, no
\* status is recorded and the instance has no attribute vms.  A status is
\* recorded by label.
InitMachinery ==
    /\ proc = Proc("none", "", "idle", 0, "", {}, 0, <<>>, "")
    /\ db = [l \in Labels |-> [status |-> ""]]
    /\ shut = Shut("idle", <<>>, <<>>, <<>>, 0)
    /\ vms = Vms("absent", {})
    /\ check = Check("idle", <<>>, 0, {}, 0)
    /\ options = Options(FALSE, <<>>)
    /\ rows = <<>>

Init ==
    /\ InitConfiguration
    /\ InitSignature({DefaultMarkcount})
    /\ InitMachinery
    /\ InitRouter({CallStream})
    /\ raised = "none"
    /\ last = Call("__init__", None, None)

\* The fragment is appended to entries after its family was read: a
\* fragment without family is not logged.
addAfterLookup(entry) ==
    /\ Len(entries) < MaxAdds
    /\ last' = Call("add", entry, None)
    /\ UNCHANGED <<sigVars, extVars>>
    /\ IF ~HasKey(entry, "family")
       THEN /\ raised' = "KeyError"
            /\ UNCHANGED <<entries, order, families, errlog>>
       ELSE LET name == FamilyOf(entry)
                st == MergeItems([family |-> FamilyRecord(families, name, entry),
                                  log |-> errlog], entry)
            IN  /\ entries' = Append(entries, entry)
                /\ order' = NewOrder(order, families, name)
                /\ families' = Put(families, name, st.family)
                /\ errlog' = st.log
                /\ raised' = "none"

\* Configuration.add(entry).  entry["family"] raises KeyError when the
\* fragment has no such key, after the fragment was appended to entries.
add(entry) ==
    /\ Len(entries) < MaxAdds
    /\ entries' = Append(entries, entry)
    /\ last' = Call("add", entry, None)
    /\ UNCHANGED <<sigVars, extVars>>
    /\ IF ~HasKey(entry, "family")
       THEN /\ raised' = "KeyError"
            /\ UNCHANGED <<order, families, errlog>>
       ELSE LET name == FamilyOf(entry)
                st == MergeItems([family |-> FamilyRecord(families, name, entry),
                                  log |-> errlog], entry)
            IN  /\ order' = NewOrder(order, families, name)
                /\ families' = Put(families, name, st.family)
                /\ errlog' = st.log
                /\ raised' = "none"

\* An object met by Configuration.get on its way down a family record: a
\* dict (t = "dict": a family record, the dict under 'key' or 'extra', or
\* the default {}), a list, or a string.  of tells what a dict holds.
Object(t, of, v) == [t |-> t, of |-> of, v |-> v]

\* r.get(key, {}) of lines 102 and 104.  Only a dict has a method get.
DictGet(r, key) ==
    IF r.t # "dict" THEN Object("AttributeError", "", None)
    ELSE IF key \notin DOMAIN r.v THEN Object("dict", "nothing", EmptyDict)
    ELSE IF r.of = "families" THEN Object("dict", "fields", r.v[key])
    ELSE IF r.of = "lists" THEN Object("list", "", r.v[key])
    ELSE IF key \in {"key", "extra"} THEN Object("dict", "lists", r.v[key])
    ELSE IF key \in keywords2 THEN Object("list", "", r.v[key])
    ELSE IF r.v[key].kind = "list" THEN Object("list", "", r.v[key].items)
    ELSE Object("str", "", r.v[key].s)

\* The loop of lines 103-104; an exception ends it.
RECURSIVE DictGetPath(_, _)
DictGetPath(r, keys) ==
    IF keys = <<>> \/ r.t = "AttributeError" THEN r
    ELSE DictGetPath(DictGet(r, Head(keys)), Tail(keys))

\* r or None of line 105: an empty dict, list or string gives None.
OrNone(r) ==
    IF r.t = "dict" /\ DOMAIN r.v = {} THEN None
    ELSE IF r.t = "list" /\ r.v = <<>> THEN None
    ELSE IF r.t = "str" /\ r.v = "" THEN None
    ELSE r

\* Configuration.get(family, *keys)
get(family, keys) ==
    LET r == DictGetPath(Object("dict", "families", families),
                         <<family>> \o keys)
    IN  /\ IF r.t = "AttributeError"
           THEN raised' = "AttributeError"
                /\ last' = Call("get", <<family>> \o keys, None)
           ELSE raised' = "none"
                /\ last' = Call("get", <<family>> \o keys, OrNone(r))
        /\ UNCHANGED <<cfgVars, extVars>>
        /\ UNCHANGED sigVars

\* Configuration.results()
results == [i \in 1..Len(order) |-> families[order[i]]]

----------------------------------------------------------------------------
\* class Signature: the marks.  A mark is a dict; the values of its fields
\* are Python values, the value of 'config' is the argument of mark_config.

\* mark.update(kwargs)
RECURSIVE Update(_, _)
Update(d, kwargs) ==
    IF kwargs = <<>> THEN d
    ELSE Update(Put(d, Head(kwargs).k, Head(kwargs).v), Tail(kwargs))

\* The mark is appended whether it is stored or not.
AppendAlways(ms, mark) == Append(ms, mark)

\* A stored mark is moved to the end.
AppendMovingStored(ms, mark) ==
    Append(SelectSeq(ms, LAMBDA m : m # mark), mark)

\* Lines 1275-1276 and 1290-1291: if mark not in self.marks, append it.
AppendUnlessStored(ms, mark) ==
    IF In(mark, ms) THEN ms ELSE Append(ms, mark)

\* The caller sets pid, cid and call before it delivers an API call
\* (lines 857-861).
set_call(p, c, a) ==
    /\ pid' = p
    /\ cid' = c
    /\ call' = a
    /\ raised' = "none"
    /\ last' = Call("set_call", <<p, c, a>>, None)
    /\ UNCHANGED <<marks, markcount>>
    /\ UNCHANGED <<cfgVars, extVars>>

\* Signature.mark_call(*args, **kwargs); extra tells whether arguments were
\* given, which only logs a warning.
mark_call(extra) ==
    /\ marks' = Append(marks, [x \in {"type", "pid", "cid", "call"} |->
                                 CASE x = "type" -> Str("call")
                                   [] x = "pid" -> pid
                                   [] x = "cid" -> cid
                                   [] x = "call" -> call])
    /\ raised' = "none"
    /\ last' = Call("mark_call", extra, None)
    /\ UNCHANGED <<markcount, pid, cid, call>>
    /\ UNCHANGED <<cfgVars, extVars>>

\* The dict built in lines 1263-1269 and 1281-1287.
IocDict(category, infoSource, ioc, description) ==
    [x \in {"type", "category", "infoSource", "ioc", "description"} |->
        CASE x = "type" -> Str("ioc")
          [] x = "category" -> category
          [] x = "infoSource" -> infoSource
          [] x = "ioc" -> ioc
          [] x = "description" -> description]

\* infoSource and ioc are taken in the order of mark_ioc.
mark_esunioc_as_mark_ioc(category, infoSource, ioc, description) ==
    /\ marks' = AppendUnlessStored(marks,
                     IocDict(category, ioc, infoSource, description))
    /\ raised' = "none"
    /\ last' = Call("mark_esunioc",
                    <<category, infoSource, ioc, description>>, None)
    /\ UNCHANGED <<markcount, pid, cid, call>>
    /\ UNCHANGED <<cfgVars, extVars>>

\* Signature.mark_esunioc(category, infoSource, ioc, description)
mark_esunioc(category, infoSource, ioc, description) ==
    /\ marks' = AppendUnlessStored(marks,
                     IocDict(category, infoSource, ioc, description))
    /\ raised' = "none"
    /\ last' = Call("mark_esunioc",
                    <<category, infoSource, ioc, description>>, None)
    /\ UNCHANGED <<markcount, pid, cid, call>>
    /\ UNCHANGED <<cfgVars, extVars>>

\* Signature.mark_ioc(category, ioc, infoSource, description)
mark_ioc(category, ioc, infoSource, description) ==
    /\ marks' = AppendUnlessStored(marks,
                     IocDict(category, infoSource, ioc, description))
    /\ raised' = "none"
    /\ last' = Call("mark_ioc", <<category, ioc, infoSource, description>>, None)
    /\ UNCHANGED <<markcount, pid, cid, call>>
    /\ UNCHANGED <<cfgVars, extVars>>

\* Signature.mark_vol(plugin, **kwargs)
mark_vol(plugin, kwargs) ==
    /\ marks' = Append(marks,
                     Update([x \in {"type", "plugin"} |->
                                IF x = "type" THEN Str("volatility") ELSE plugin],
                            kwargs))
    /\ raised' = "none"
    /\ last' = Call("mark_vol", <<plugin, kwargs>>, None)
    /\ UNCHANGED <<markcount, pid, cid, call>>
    /\ UNCHANGED <<cfgVars, extVars>>

\* An argument of mark_config: a dict (a fragment) or some other object.
Dict(pairs) == [dict |-> TRUE, items |-> pairs]
NotADict == [dict |-> FALSE, items |-> <<>>]

\* Line 1305: the test that makes mark_config raise.
InvalidConfig(config) == ~config.dict \/ ~HasKey(config.items, "family")

\* Signature.mark_config(config)
mark_config(config) ==
    /\ IF InvalidConfig(config)
       THEN /\ raised' = "CuckooCriticalError"
            /\ UNCHANGED marks
       ELSE /\ raised' = "none"
            /\ marks' = Append(marks, [x \in {"type", "config"} |->
                              IF x = "type" THEN Str("config") ELSE config])
    /\ last' = Call("mark_config", config, None)
    /\ UNCHANGED <<markcount, pid, cid, call>>
    /\ UNCHANGED <<cfgVars, extVars>>

\* Signature.mark(**kwargs)
mark(kwargs) ==
    /\ marks' = Append(marks, Update([x \in {"type"} |-> Str("generic")], kwargs))
    /\ raised' = "none"
    /\ last' = Call("mark", kwargs, None)
    /\ UNCHANGED <<markcount, pid, cid, call>>
    /\ UNCHANGED <<cfgVars, extVars>>

\* The last n elements instead of the first.
SliceFromEnd(seq, n) ==
    SubSeq(seq, IF n < Len(seq) THEN Len(seq) - n + 1 ELSE 1, Len(seq))

\* seq[:n]: the first n elements, all of them when there are fewer; a
\* negative n counts from the end.
Slice(seq, n) ==
    IF n >= 0 THEN SubSeq(seq, 1, IF n < Len(seq) THEN n ELSE Len(seq))
    ELSE SubSeq(seq, 1, IF Len(seq) + n > 0 THEN Len(seq) + n ELSE 0)

\* Signature.results(): of the dict it returns, marks and markcount; the
\* other entries are attributes of the signature class.
Signature_results ==
    /\ last' = Call("results", None,
                    [marks |-> Slice(marks, markcount),
                     markcount |-> Len(marks)])
    /\ raised' = "none"
    /\ UNCHANGED sigVars
    /\ UNCHANGED <<cfgVars, extVars>>

----------------------------------------------------------------------------
\* Fragments submitted in the explored behaviours.

\* {"family": fam, k1: v1, ...}
Frag(fam, pairs) == <<Pair("family", Str(fam))>> \o pairs

\* One family, every merge policy.
PolicyFragments ==
    { Frag("Zeus", <<p>>) : p \in
        { Pair("type", Str("A")), Pair("cnc", List(<<"a", "b">>)),
          Pair("cncs", Str("a")),
          Pair("rc4key", Str("k1")), Pair("rc4key", Str("k2")),
          Pair("rc4key", List(<<"k1", "k2">>)), Pair("rc4key", Str("")),
          Pair("iv", Str("k1")),
          Pair("foo", Str("a")), Pair("foo", Str("b")),
          Pair("foo", List(<<"a", "b">>)), Pair("foo", None),
          Pair("key", Str("k1")), Pair("extra", Str("a")) } }
    \cup { Frag("Zeus", <<Pair("rc4key", Str("k1")), Pair("foo", Str("a"))>>),
           <<Pair("iv", Str("k2")), Pair("family", Str("Zeus"))>>,
           Frag("Zeus", <<Pair("type", Str("A")), Pair("rc4key", Str("k1")),
                          Pair("foo", Str("a"))>>),
           Frag("Emotet", <<Pair("rc4key", Str("k2"))>>),
           Frag("Emotet", <<Pair("foo", Str("b"))>>) }

\* Multiple entry values and their synonyms.
ListFragments ==
    { Frag("Zeus", <<Pair(k, v)>>) :
        k \in {"cnc", "cncs"},
        v \in { Str("1.2.3.4"), Str("5.6.7.8"), Str(""),
                List(<<"5.6.7.8", "1.2.3.4", "5.6.7.8">>),
                List(<<"", "9.9.9.9">>) } }
    \cup { Frag("Zeus", <<Pair("url", List(<<"">>))>>),
           Frag("Zeus", <<Pair("cnc", Str("1.2.3.4")), Pair("mutex", Str("abc"))>>),
           Frag("Zeus", <<Pair("cnc", Str("1.2.3.4")), Pair("url", Str("http://x"))>>),
           Frag("Zeus", <<Pair("cnc", Str("5.6.7.8")), Pair("cncs", Str("1.2.3.4"))>>),
           Frag("Zeus", <<Pair("cncs", Str("1.2.3.4")), Pair("cnc", Str("5.6.7.8"))>>),
           Frag("Emotet", <<Pair("cnc", Str("5.6.7.8"))>>),
           Frag("Emotet", <<Pair("user-agent", List(<<"ua", "ua">>))>>),
           <<Pair("cnc", Str("7.7.7.7"))>> }

\* Single entry values.
SingleFragments ==
    { Frag("Zeus", <<Pair(k, v)>>) :
        k \in {"type", "version"},
        v \in { Str("A"), Str("B"), Str(""), None, List(<<"A">>) } }
    \cup { Frag("Emotet", <<Pair("type", Str("B"))>>),
           Frag("Emotet", <<Pair("type", Str("A"))>>),
           Frag("Zeus", <<Pair("type", Str("B")), Pair("cnc", Str("x"))>>) }

\* Family names: present, absent, empty, differing in case only.
FamilyFragments ==
    { Frag(f, b) : f \in {"B", "A", "b", ""},
                   b \in { <<>>, <<Pair("cnc", Str("x"))>>,
                           <<Pair("type", Str("T"))>> } }
    \cup { <<>>, <<Pair("cnc", Str("x"))>>, <<Pair("type", Str("T"))>> }

\* Fragments looked up with Configuration.get.
GetFragments ==
    { Frag("Zeus", <<Pair("cnc", Str("1.2.3.4")), Pair("type", Str("bot"))>>),
      Frag("Zeus", <<Pair("rc4key", Str("k1")), Pair("foo", Str("a"))>>),
      Frag("Zeus", <<Pair("url", List(<<"">>))>>),
      Frag("", <<Pair("type", List(<<"bot">>))>>) }

GetFamilies == {"Zeus", "", "Dridex"}

GetPaths ==
    { <<>>, <<"family">>, <<"cnc">>, <<"cnc", "1.2.3.4">>, <<"type">>,
      <<"type", "bot">>, <<"url">>, <<"key", "rc4key">>,
      <<"key", "rc4key", "k1">>, <<"key", "iv", "k1">>,
      <<"extra", "foo">>, <<"mutex", "abc">> }

Next == \E entry \in PolicyFragments : add(entry)
NextList == \E entry \in ListFragments : add(entry)
NextSingle == \E entry \in SingleFragments : add(entry)
NextFamily == \E entry \in FamilyFragments : add(entry)

Spec == Init /\ [][Next]_vars
SpecList == Init /\ [][NextList]_vars
SpecSingle == Init /\ [][NextSingle]_vars
SpecFamily == Init /\ [][NextFamily]_vars

\* Fragments with empty values and with conflicting single entry values
\* beside other keys.
MixedFragments ==
    { Frag("Zeus", <<Pair("type", Str("A")), Pair("cnc", Str("x"))>>),
      Frag("Zeus", <<Pair("type", Str("B")), Pair("cnc", Str("y"))>>),
      Frag("Zeus", <<Pair("cnc", Str("z")), Pair("type", Str("B"))>>),
      Frag("Zeus", <<Pair("rc4key", Str("k")), Pair("type", Str("C")),
                     Pair("foo", Str("a"))>>),
      Frag("Zeus", <<Pair("type", Str("")), Pair("cnc", Str("y"))>>),
      Frag("Zeus", <<Pair("cnc", List(<<>>)), Pair("type", Str("B"))>>),
      Frag("Zeus", <<Pair("rc4key", None), Pair("foo", Str("b"))>>),
      Frag("Zeus", <<Pair("foo", Str("")), Pair("rc4key", Str("k2"))>>),
      Frag("Zeus", <<Pair("version", None), Pair("cncs", List(<<>>)),
                     Pair("iv", Str("")), Pair("bar", List(<<>>))>>),
      Frag("Emotet", <<Pair("type", None), Pair("mutex", Str("m"))>>),
      Frag("Emotet", <<Pair("type", Str("B")), Pair("version", Str("1")),
                       Pair("cnc", Str(""))>>),
      Frag("Emotet", <<Pair("version", Str("2")), Pair("type", Str("A")),
                       Pair("url", Str("u"))>>) }

NextMixed == \E entry \in MixedFragments : add(entry)

SpecMixed == Init /\ [][NextMixed]_vars

\* Marks of a signature.
MaxMarks == 3

IocArguments ==
    { <<Str("file"), Str("a.exe"), None, None>>,
      <<Str("file"), Str("a.exe"), None, Str("dropped")>>,
      <<Str("file"), Str("a.exe"), Str("memory"), None>> }

KeywordArguments ==
    { <<>>,
      <<Pair("category", Str("file")), Pair("infoSource", None),
        Pair("ioc", Str("a.exe")), Pair("description", None)>>,
      <<Pair("type", Str("ioc")), Pair("category", Str("file")),
        Pair("infoSource", None), Pair("ioc", Str("a.exe")),
        Pair("description", None)>> }

ConfigArguments ==
    { Dict(Frag("Zeus", <<Pair("cnc", Str("1.2.3.4"))>>)),
      Dict(Frag("", <<Pair("cnc", Str("1.2.3.4"))>>)),
      Dict(<<Pair("cnc", Str("1.2.3.4"))>>),
      NotADict }

NextSignature ==
    \/ set_call(Num("2044"), Num("7"), Str("CreateFileW"))
    \/ /\ Len(marks) < MaxMarks
       /\ \/ \E extra \in BOOLEAN : mark_call(extra)
          \/ \E a \in IocArguments : mark_ioc(a[1], a[2], a[3], a[4])
          \/ \E a \in IocArguments : mark_esunioc(a[1], a[3], a[2], a[4])
          \/ \E kwargs \in KeywordArguments : mark_vol(Str("pslist"), kwargs)
          \/ \E config \in ConfigArguments : mark_config(config)
          \/ \E kwargs \in KeywordArguments : mark(kwargs)
    \/ Signature_results

SpecSignature == Init /\ [][NextSignature]_vars

\* A signature with many marks, for classes with different mark caps.
MaxCapMarks == 60

MarkCaps == {0, 2, DefaultMarkcount}

InitCap ==
    /\ InitConfiguration
    /\ InitSignature(MarkCaps)
    /\ InitMachinery
    /\ InitRouter({CallStream})
    /\ raised = "none"
    /\ last = Call("__init__", None, None)

\* str(n) of a natural number.
RECURSIVE Decimal(_)
Decimal(n) ==
    LET digit == <<"0", "1", "2", "3", "4", "5", "6", "7", "8", "9">>
    IN  IF n < 10 THEN digit[n + 1]
        ELSE Decimal(n \div 10) \o digit[(n % 10) + 1]

\* The caller delivers the API calls of one process one after the other,
\* cid being the index of the call (lines 857-861), and the signature
\* marks each of them once: the marks differ by their cid.
NextCap ==
    \/ /\ Len(marks) < MaxCapMarks
       /\ cid # Num(Decimal(Len(marks)))
       /\ set_call(Num("2044"), Num(Decimal(Len(marks))), Str("CreateFileW"))
    \/ /\ cid = Num(Decimal(Len(marks)))
       /\ mark_call(FALSE)
    \/ Signature_results

SpecCap == InitCap /\ [][NextCap]_vars

\* ---------------------------------------------------------------------
\* Signature._check_value.  A string is a sequence of one-character
\* strings, carried in Str; a list subject is a List of such strings.

\* The upper-case ASCII letters and their lower-case forms.
LowerCase ==
    [A |-> "a", B |-> "b", C |-> "c", D |-> "d", E |-> "e", F |-> "f",
     G |-> "g", H |-> "h", I |-> "i", J |-> "j", K |-> "k", L |-> "l",
     M |-> "m", N |-> "n", O |-> "o", P |-> "p", Q |-> "q", R |-> "r",
     S |-> "s", T |-> "t", U |-> "u", V |-> "v", W |-> "w", X |-> "x",
     Y |-> "y", Z |-> "z"]

lowerChar(c) == IF c \in DOMAIN LowerCase THEN LowerCase[c] ELSE c

\* str.lower()
lower(cs) == [i \in DOMAIN cs |-> lowerChar(cs[i])]

\* re.compile raises re.error for a repeat with nothing before it and
\* for a repeat of a repeat.
InvalidPattern(p) ==
    \E i \in DOMAIN p : p[i] = "*" /\ (i = 1 \/ p[i - 1] = "*")

\* One pattern character against one subject character under
\* re.IGNORECASE without re.DOTALL (line 877); "." is any character but a
\* newline.
CharMatches(p, c) == (p = "." /\ c # "\n") \/ lowerChar(p) = lowerChar(c)

RECURSIVE MatchHere(_, _), MatchStar(_, _, _)
\* exp.match(item): the pattern of literals, "." and "*" matches a
\* prefix of the string, from its first character.
MatchHere(p, cs) ==
    IF p = <<>> THEN TRUE
    ELSE IF Len(p) >= 2 /\ p[2] = "*"
         THEN MatchStar(p[1], Tail(Tail(p)), cs)
    ELSE /\ cs # <<>>
         /\ CharMatches(p[1], cs[1])
         /\ MatchHere(Tail(p), Tail(cs))

MatchStar(c, p, cs) ==
    \/ MatchHere(p, cs)
    \/ /\ cs # <<>>
       /\ CharMatches(c, cs[1])
       /\ MatchStar(c, p, Tail(cs))

\* The items the loop visits: the elements of a list, or the subject.
Candidates(subject) ==
    IF subject.kind = "list"
    THEN {subject.items[i] : i \in DOMAIN subject.items}
    ELSE {subject}

RECURSIVE Search(_, _)
\* exp.search(item): the pattern matches from some character on.
Search(p, cs) ==
    \/ MatchHere(p, cs)
    \/ cs # <<>> /\ Search(p, Tail(cs))

\* The regular expression is searched for, not matched from the start.
HitUnanchored(pattern, subject, regex, item) ==
    IF regex THEN Search(pattern.s, item.s)
    ELSE IF subject.kind = "list" THEN lower(item.s) = lower(pattern.s)
    ELSE item.s = pattern.s

\* The test that adds an item to ret, one per branch.
Hit(pattern, subject, regex, item) ==
    IF regex THEN MatchHere(pattern.s, item.s)
    ELSE IF subject.kind = "list" THEN lower(item.s) = lower(pattern.s)
    ELSE item.s = pattern.s

\* ret, the set of items added.
MatchSet(pattern, subject, regex) ==
    {item \in Candidates(subject) : Hit(pattern, subject, regex, item)}

\* The elements of the set, some of them more than once.
OrderingsRepeating(S) ==
    {q \in [1..2 * Cardinality(S) -> S] : \A x \in S : \E i \in DOMAIN q : q[i] = x}

\* list(ret): the elements of the set, each once, in the set's own order.
Orderings(S) ==
    {q \in [1..Cardinality(S) -> S] : \A x \in S : \E i \in DOMAIN q : q[i] = x}

\* Without all, None may be returned although ret has elements.
ReturnsNoneToo(ret, all) ==
    IF all THEN {List(q) : q \in Orderings(ret)}
    ELSE ret \cup {None}

\* The values the call can return: list(ret) with all, else ret.pop(),
\* an arbitrary element, or None when ret is empty.
Returns(ret, all) ==
    IF all THEN {List(q) : q \in Orderings(ret)}
    ELSE IF ret # {} THEN ret
    ELSE {None}

\* Signature._check_value
_check_value(pattern, subject, regex, all) ==
    LET arg == [pattern |-> pattern, subject |-> subject,
                regex |-> regex, all |-> all]
    IN  /\ UNCHANGED <<cfgVars, sigVars, extVars>>
        /\ IF regex /\ InvalidPattern(pattern.s)
           THEN /\ raised' = "re.error"
                /\ last' = Call("_check_value", arg, None)
           ELSE /\ raised' = "none"
                /\ \E ret \in Returns(MatchSet(pattern, subject, regex), all) :
                       last' = Call("_check_value", arg, ret)

\* Lists of at most MaxSubject items are checked.
MaxSubject == 2

\* Patterns: literals in both cases, regular expressions, an invalid one.
CheckPatterns ==
    {Str(cs) : cs \in {<<"a", "b">>, <<"A", "B">>, <<"a">>, <<>>,
                       <<"a", "b", ".", "*">>, <<".", "b">>,
                       <<"a", "*", "b">>, <<"*", "a">>}}

\* The strings of single-string subjects.
CheckStrings ==
    {Str(cs) : cs \in {<<"a", "b">>, <<"A", "B">>, <<"a", "B", "x">>,
                       <<"x", "a", "b">>, <<"b">>, <<>>}}

\* The strings of list subjects.
CheckItems ==
    {Str(cs) : cs \in {<<"a", "b">>, <<"A", "B">>, <<"x", "a", "b">>}}

\* Subjects: a single string, or a list of strings.
CheckSubjects ==
    CheckStrings \cup
    {List(q) : q \in UNION {[1..n -> CheckItems] : n \in 0..MaxSubject}}

NextCheck ==
    \E pattern \in CheckPatterns : \E subject \in CheckSubjects :
        \E regex \in BOOLEAN : \E all \in BOOLEAN :
            _check_value(pattern, subject, regex, all)

SpecCheck == Init /\ [][NextCheck]_vars

\* The pattern and candidates of the anchored-match example, and others.
RegexPatterns ==
    {Str(cs) : cs \in {<<"a", "b", "c", ".", "*">>, <<"A", "B", "C">>,
                       <<".", "b", "c">>, <<"x", "*", "a">>, <<"*", "a">>}}

RegexStrings ==
    {Str(cs) : cs \in {<<"A", "B", "C", "D", "E", "F">>,
                       <<"X", "A", "B", "C", "D", "E", "F">>,
                       <<"\n", "b", "c">>}}

RegexSubjects ==
    RegexStrings \cup
    {List(q) : q \in UNION {[1..n -> RegexStrings] : n \in 0..MaxSubject}}

NextRegex ==
    \E pattern \in RegexPatterns : \E subject \in RegexSubjects :
        \E regex \in BOOLEAN : \E all \in BOOLEAN :
            _check_value(pattern, subject, regex, all)

SpecRegex == Init /\ [][NextRegex]_vars

\* ---------------------------------------------------------------------
\* class Machinery and class LibVirtMachinery

\* VM states (lines 413-417).
RUNNING == "running"
PAUSED == "paused"
POWEROFF == "poweroff"
ERROR == "machete"
ABORTED == "abort"

\* The largest configured cuckoo:timeouts:vm_state explored.
MaxTimeout == 1

\* What libvirt does during one _status call: whether libvirt.open
\* succeeds, whether state(flags=0) raises libvirtError, the state it
\* returns otherwise, and whether conn.close() succeeds.
StatusReply(connect, fails, state, close) ==
    [connect |-> connect, fails |-> fails, state |-> state, close |-> close]

\* virDomainState values (lines 565-572).
DomainStates == 0..7

StatusReplies ==
    {StatusReply(TRUE, FALSE, <<c, 0>>, TRUE) : c \in DomainStates} \cup
    { StatusReply(TRUE, FALSE, <<>>, TRUE),
      StatusReply(TRUE, TRUE, <<>>, TRUE),
      StatusReply(FALSE, FALSE, <<>>, TRUE),
      StatusReply(TRUE, FALSE, <<1, 0>>, FALSE),
      StatusReply(TRUE, TRUE, <<>>, FALSE) }

\* The outcome of a call: the exception raised, or "none", its message,
\* the value returned and the calls made to libvirt.
Outcome(error, msg, value, calls) ==
    [error |-> error, msg |-> msg, value |-> value, calls |-> calls]

\* LibVirtMachinery._connect and _disconnect around one libvirt call
\* (try / finally): the calls made, given that the call itself is made.
Connected(reply, name) ==
    IF reply.connect THEN <<"open", name, "close">> ELSE <<>>

\* The calls of one _status call: the call itself, then those to libvirt.
\* With self.vms None or missing, self.vms[label] raises before state()
\* is called.
StatusCalls(reply) ==
    IF vms.kind # "dict" /\ reply.connect
    THEN <<"_status", "open", "close">>
    ELSE <<"_status">> \o Connected(reply, "state")

\* Lines 584-592: state[0] as a status.  An empty state leaves status
\* unbound.
StatusOfState(state) ==
    IF state = <<>> THEN ""
    ELSE IF state[1] = 1 THEN RUNNING
    ELSE IF state[1] = 3 THEN PAUSED
    ELSE IF state[1] = 4 \/ state[1] = 5 THEN POWEROFF
    ELSE ERROR

\* LibVirtMachinery._status(label), given what libvirt does.  The value is
\* the status returned, which set_status has recorded.
_status(reply) ==
    IF ~reply.connect
    THEN Outcome("CuckooMachineError", "Cannot connect to libvirt", "",
                 StatusCalls(reply))
    ELSE IF ~reply.close
    THEN Outcome("CuckooMachineError", "Cannot disconnect from libvirt", "",
                 StatusCalls(reply))
    ELSE IF vms.kind = "absent"
    THEN Outcome("AttributeError",
                 "'LibVirtMachinery' object has no attribute 'vms'", "",
                 StatusCalls(reply))
    ELSE IF vms.kind = "None"
    THEN Outcome("TypeError", "'NoneType' object is not subscriptable", "",
                 StatusCalls(reply))
    ELSE IF reply.fails
    THEN Outcome("CuckooMachineError", "Error getting status", "",
                 StatusCalls(reply))
    ELSE IF reply.state = <<>>
    THEN Outcome("UnboundLocalError", "status", "", StatusCalls(reply))
    ELSE Outcome("none", "", StatusOfState(reply.state), StatusCalls(reply))

\* NameError and its subclass UnboundLocalError.
IsNameError(error) == error \in {"NameError", "UnboundLocalError"}

\* Machinery.set_status(label, status), after a _status call that returned.
set_status(label, out) ==
    IF out.error = "none" THEN [db EXCEPT ![label].status = out.value] ELSE db

\* The operation ends: it returns (error "none") or raises.
Finish(p, error, msg) ==
    /\ proc' = [p EXCEPT !.pc = "idle", !.msg = msg]
    /\ raised' = error
    /\ last' = Call(p.op, [label |-> p.label], None)

\* The operation goes on from position pc.
Goto(p, pc) ==
    /\ proc' = [p EXCEPT !.pc = pc]
    /\ raised' = "pending"
    /\ last' = Call(p.op, [label |-> p.label], None)

\* Machinery._wait_status(label, *states) is called; timeout is the
\* configured cuckoo:timeouts:vm_state.
_wait_status(label, states, timeout) ==
    /\ proc.pc = "idle"
    /\ shut.pc = "idle"
    /\ check.pc = "idle"
    /\ proc' = Proc("_wait_status", label, "enter", 0, "", states, timeout,
                    <<>>, "")
    /\ raised' = "pending"
    /\ last' = Call("_wait_status", [label |-> label], None)
    /\ UNCHANGED <<cfgVars, sigVars, db, router, shut, vms, check, options, rows>>

\* Lines 381-387: waitme = 0, the first poll, and the first test of the
\* loop condition.  A NameError of the poll ends the wait.
WaitFirst(reply) ==
    LET out == _status(reply)
        q == [proc EXCEPT !.calls = @ \o out.calls, !.current = out.value,
                          !.waitme = 0]
    IN  /\ proc.pc = "enter"
        /\ db' = set_status(proc.label, out)
        /\ UNCHANGED <<cfgVars, sigVars, router, shut, vms, check, options, rows>>
        /\ IF IsNameError(out.error) THEN Finish(q, "none", "")
           ELSE IF out.error # "none" THEN Finish(q, out.error, out.msg)
           ELSE IF out.value \in proc.states THEN Finish(q, "none", "")
           ELSE Goto(q, "wait")

\* Lines 387-395: a round of the loop begins, entered because current is
\* not a target state: the timeout test, then the thread goes to sleep
\* for a second.
WaitSleep ==
    /\ proc.pc = "wait"
    /\ UNCHANGED <<cfgVars, sigVars, router, shut, vms, db, check, options, rows>>
    /\ IF proc.waitme > proc.timeout
       THEN Finish(proc, "CuckooMachineError", "Timeout hit")
       ELSE Goto([proc EXCEPT !.calls = @ \o <<"sleep">>], "asleep")

\* The timeout is tested again after the poll, before the loop condition.
WaitAgainPollFirst(reply) ==
    LET out == _status(reply)
        q == [proc EXCEPT !.calls = @ \o out.calls,
                          !.current = out.value, !.waitme = @ + 1]
    IN  /\ proc.pc = "asleep"
        /\ db' = set_status(proc.label, out)
        /\ UNCHANGED <<cfgVars, sigVars, router, shut, vms, check, options, rows>>
        /\ IF out.error # "none" THEN Finish(q, out.error, out.msg)
           ELSE IF q.waitme > proc.timeout
           THEN Finish(q, "CuckooMachineError", "Timeout hit")
           ELSE IF out.value \in proc.states THEN Finish(q, "none", "")
           ELSE Goto(q, "wait")

\* Lines 395-397 and 387: the sleep is over: waitme += 1, the next poll
\* and the test of the loop condition.
WaitAgain(reply) ==
    LET out == _status(reply)
        q == [proc EXCEPT !.calls = @ \o out.calls,
                          !.current = out.value, !.waitme = @ + 1]
    IN  /\ proc.pc = "asleep"
        /\ db' = set_status(proc.label, out)
        /\ UNCHANGED <<cfgVars, sigVars, router, shut, vms, check, options, rows>>
        /\ IF out.error # "none" THEN Finish(q, out.error, out.msg)
           ELSE IF out.value \in proc.states THEN Finish(q, "none", "")
           ELSE Goto(q, "wait")

\* What the database does for view_machine_by_label: the machine has a
\* configured snapshot, has none, is not found (None), or the query raises.
ViewReplies == {"snapshot", "nosnapshot", "missing", "raises"}

\* What libvirt does for snapshotListNames: the configured snapshot is
\* listed, is not listed, or the call raises libvirtError.
ListReplies == {"listed", "unlisted", "raises"}

\* What libvirt does during one _get_snapshot call: whether libvirt.open
\* succeeds; whether hasCurrentSnapshot says yes, says no or raises
\* libvirtError; what the call made next, snapshotCurrent or
\* listAllSnapshots, gives: a snapshot, none (None, or an empty list) or
\* libvirtError; and whether conn.close() succeeds.
SnapshotReply(connect, current, snapshot, close) ==
    [connect |-> connect, current |-> current, snapshot |-> snapshot,
     close |-> close]

SnapshotReplies ==
    {SnapshotReply(FALSE, "raises", "none", TRUE)} \cup
    {SnapshotReply(TRUE, "raises", "none", close) : close \in BOOLEAN} \cup
    {SnapshotReply(TRUE, current, snapshot, close) :
         current \in {"yes", "no"}, snapshot \in {"found", "none", "raises"},
         close \in BOOLEAN}

\* LibVirtMachinery._get_snapshot(label), given what libvirt does: the
\* current snapshot, else the latest of listAllSnapshots, [0] of an empty
\* list raising IndexError; libvirtError becomes CuckooMachineError, and
\* an error of conn.close() in the finally block replaces whatever the
\* block was raising or returning.
_get_snapshot(reply) ==
    LET asked == IF reply.current = "yes" THEN <<"snapshotCurrent">>
                 ELSE IF reply.current = "no" THEN <<"listAllSnapshots">>
                 ELSE <<>>
        calls == <<"_get_snapshot", "open">> \o asked \o <<"close">>
    IN  IF ~reply.connect
        THEN Outcome("CuckooMachineError", "Cannot connect to libvirt", "",
                     <<"_get_snapshot">>)
        ELSE IF ~reply.close
        THEN Outcome("CuckooMachineError", "Cannot disconnect from libvirt",
                     "", calls)
        ELSE IF reply.current = "raises" \/ reply.snapshot = "raises"
        THEN Outcome("CuckooMachineError", "Unable to get snapshot", "", calls)
        ELSE IF reply.snapshot = "found"
        THEN Outcome("none", "", "snapshot", calls)
        ELSE IF reply.current = "yes"
        THEN Outcome("none", "", "", calls)
        ELSE Outcome("IndexError", "list index out of range", "", calls)

\* try: revertToSnapshot  except libvirtError: raise CuckooMachineError
\* finally: self._disconnect(conn), then self._wait_status(label, RUNNING).
\* An error of conn.close() replaces the one being raised.
RevertAndDisconnect(p, revert, close) ==
    LET tried == [p EXCEPT !.calls = @ \o <<"revertToSnapshot", "close">>]
    IN  IF ~close
        THEN Finish(tried, "CuckooMachineError", "Cannot disconnect from libvirt")
        ELSE IF ~revert
        THEN Finish(tried, "CuckooMachineError", "Unable to restore snapshot")
        ELSE Goto(tried, "enter")

\* Lines 466-499, with the connection of line 464 open: the machine
\* record, the snapshot names, and the snapshot reverted to.
StartConnected(p) ==
    \E view \in ViewReplies : \E listing \in ListReplies :
        LET viewed == [p EXCEPT !.calls = @ \o <<"view_machine_by_label">>]
            listed == [viewed EXCEPT !.calls = @ \o <<"snapshotListNames">>]
        IN
        IF view = "raises"
        THEN Finish(viewed, "CuckooDatabaseError", "view_machine_by_label")
        ELSE IF listing = "raises"
        THEN Finish(listed, "libvirtError", "snapshotListNames")
        ELSE IF view = "missing"
        THEN Finish(listed, "AttributeError", "snapshot")
        ELSE IF view = "snapshot" /\ listing = "listed"
        THEN \E lookup \in BOOLEAN : \E revert \in BOOLEAN : \E close \in BOOLEAN :
                 LET looked == [listed EXCEPT
                                   !.calls = @ \o <<"snapshotLookupByName">>]
                 IN  IF lookup THEN RevertAndDisconnect(looked, revert, close)
                     ELSE IF ~close
                     THEN Finish([looked EXCEPT !.calls = @ \o <<"close">>],
                                 "CuckooMachineError",
                                 "Cannot disconnect from libvirt")
                     ELSE Finish([looked EXCEPT !.calls = @ \o <<"close">>],
                                 "CuckooMachineError",
                                 "Unable to restore snapshot")
        ELSE \E first \in SnapshotReplies :
                 LET got == _get_snapshot(first)
                     asked == [listed EXCEPT !.calls = @ \o got.calls]
                 IN
                 IF got.error # "none" THEN Finish(asked, got.error, got.msg)
                 ELSE IF got.value = ""
                 THEN \E close \in BOOLEAN :
                          IF close
                          THEN Finish([asked EXCEPT !.calls = @ \o <<"close">>],
                                      "CuckooMachineError", "No snapshot found")
                          ELSE Finish([asked EXCEPT !.calls = @ \o <<"close">>],
                                      "CuckooMachineError",
                                      "Cannot disconnect from libvirt")
                 ELSE \E second \in SnapshotReplies :
                          LET again == _get_snapshot(second)
                              twice == [asked EXCEPT !.calls = @ \o again.calls]
                          IN
                          IF again.error # "none"
                          THEN Finish(twice, again.error, again.msg)
                          ELSE IF again.value = ""
                          THEN Finish(twice, "AttributeError", "getName")
                          ELSE \E revert \in BOOLEAN : \E close \in BOOLEAN :
                                   RevertAndDisconnect(twice, revert, close)

\* LibVirtMachinery.start(label, task), up to the call of _wait_status:
\* the status test of lines 459-462, the connection of line 464 and the
\* snapshot; timeout is the configured cuckoo:timeouts:vm_state.
start(label, timeout) ==
    /\ proc.pc = "idle"
    /\ shut.pc = "idle"
    /\ check.pc = "idle"
    /\ UNCHANGED <<cfgVars, sigVars, router, shut, vms, check, options, rows>>
    /\ \E reply \in StatusReplies : \E connect \in BOOLEAN :
           LET out == _status(reply)
               p == Proc("start", label, "idle", 0, out.value, {RUNNING},
                         timeout, out.calls, "")
           IN  /\ db' = set_status(label, out)
               /\ IF out.error # "none" THEN Finish(p, out.error, out.msg)
                  ELSE IF out.value # POWEROFF
                  THEN Finish(p, "CuckooMachineError", "not been turned off")
                  ELSE IF ~connect
                  THEN Finish(p, "CuckooMachineError",
                              "Cannot connect to libvirt")
                  ELSE StartConnected([p EXCEPT !.calls = @ \o <<"open">>])

\* LibVirtMachinery._status(label) is called on its own, libvirt doing
\* what reply says: the status returned is kept in current.
CallStatus(label, reply) ==
    LET out == _status(reply)
    IN  /\ proc.pc = "idle"
        /\ shut.pc = "idle"
        /\ check.pc = "idle"
        /\ proc' = Proc("_status", label, "idle", 0, out.value, {}, 0,
                        out.calls, out.msg)
        /\ db' = set_status(label, out)
        /\ raised' = out.error
        /\ last' = Call("_status", [label |-> label, reply |-> reply], None)
        /\ UNCHANGED <<cfgVars, sigVars, router, shut, vms, check, options, rows>>

\* What libvirt does between _connect and _disconnect of stop: the domain
\* is not active, it is destroyed, or isActive() or destroy() raises
\* libvirtError.
StopReplies == {"inactive", "destroyed", "isActiveRaises", "destroyRaises"}

\* The status test of line 511 is left out.
AlreadyStoppedIgnored(status) == FALSE

\* Line 511: self._status(label) == self.POWEROFF.
AlreadyStopped(status) == status = POWEROFF

\* LibVirtMachinery.stop(label), up to the call of _wait_status: the
\* status test of lines 511-513, the connection of line 516, isActive and
\* destroy in try / except libvirtError / finally _disconnect.  An error
\* of conn.close() replaces the one being raised.
Stopping(label, timeout) ==
    \E reply \in StatusReplies :
        LET out == _status(reply)
            p == Proc("stop", label, "idle", 0, out.value, {POWEROFF},
                      timeout, out.calls, "")
        IN  /\ db' = set_status(label, out)
            /\ IF out.error # "none" THEN Finish(p, out.error, out.msg)
               ELSE IF AlreadyStopped(out.value)
               THEN Finish(p, "CuckooMachineError", "already stopped")
               ELSE \E connect \in BOOLEAN :
                   IF ~connect
                   THEN Finish(p, "CuckooMachineError",
                               "Cannot connect to libvirt")
                   ELSE \E vm \in StopReplies : \E close \in BOOLEAN :
                       LET active == [p EXCEPT
                                         !.calls = @ \o <<"open", "isActive">>]
                           acted ==
                               IF vm \in {"destroyed", "destroyRaises"}
                               THEN [active EXCEPT !.calls = @ \o <<"destroy">>]
                               ELSE active
                           closed == [acted EXCEPT !.calls = @ \o <<"close">>]
                       IN  IF ~close
                           THEN Finish(closed, "CuckooMachineError",
                                       "Cannot disconnect from libvirt")
                           ELSE IF vm \in {"isActiveRaises", "destroyRaises"}
                           THEN Finish(closed, "CuckooMachineError",
                                       "Error stopping virtual machine")
                           ELSE Goto(closed, "enter")

\* LibVirtMachinery.stop(label) is called; timeout is the configured
\* cuckoo:timeouts:vm_state.
stop(label, timeout) ==
    /\ proc.pc = "idle"
    /\ shut.pc = "idle"
    /\ check.pc = "idle"
    /\ Stopping(label, timeout)
    /\ UNCHANGED <<cfgVars, sigVars, router, shut, vms, check, options, rows>>

\* What self.running() returns, db.list_machines(locked=True): the locked
\* machines, in the order of the query.
RunningLists ==
    {<<>>, <<"vm1">>, <<"vm2">>, <<"vm1", "vm2">>, <<"vm2", "vm1">>}

\* LibVirtMachinery.shutdown, lines 533-536: Machinery.shutdown has
\* returned; the handles are freed.
FreeHandlers == vms' = Vms("None", {})

\* LibVirtMachinery.shutdown() calls Machinery.shutdown(), lines 309-312:
\* nothing to do when no machine is running, else the loop over
\* self.running() is entered.  No other thread locks or unlocks a machine
\* meanwhile.
shutdown(running, timeout) ==
    /\ proc.pc = "idle"
    /\ shut.pc = "idle"
    /\ check.pc = "idle"
    /\ last' = Call("shutdown", None, None)
    /\ UNCHANGED <<cfgVars, sigVars, router, proc, db, check, options, rows>>
    /\ IF Len(running) > 0
       THEN /\ shut' = Shut("next", running, <<>>, <<>>, timeout)
            /\ raised' = "pending"
            /\ UNCHANGED vms
       ELSE /\ shut' = Shut("idle", running, <<>>, <<>>, timeout)
            /\ raised' = "none"
            /\ FreeHandlers

\* Lines 312-314: the next machine of the loop and the call of stop for
\* it, or the end of the loop, where Machinery.shutdown returns and
\* LibVirtMachinery.shutdown frees the handles.
ShutdownNext ==
    /\ shut.pc = "next"
    /\ proc.pc = "idle"
    /\ UNCHANGED <<cfgVars, sigVars, router, check, options, rows>>
    /\ IF Len(shut.tried) < Len(shut.running)
       THEN LET machine == shut.running[Len(shut.tried) + 1]
            IN  /\ Stopping(machine, shut.timeout)
                /\ shut' = [shut EXCEPT !.pc = "stopping",
                                        !.tried = Append(@, machine)]
                /\ UNCHANGED vms
       ELSE /\ shut' = [shut EXCEPT !.pc = "idle"]
            /\ raised' = "none"
            /\ last' = Call("shutdown", None, None)
            /\ FreeHandlers
            /\ UNCHANGED <<proc, db>>

\* Lines 313-317: the stop called by shutdown has ended.  A
\* CuckooMachineError is caught and logged as a warning, and the loop goes
\* on; any other exception leaves shutdown, the handles not freed.
ShutdownCaught ==
    /\ shut.pc = "stopping"
    /\ proc.pc = "idle"
    /\ UNCHANGED <<cfgVars, sigVars, router, proc, db, vms, check, options, rows>>
    /\ last' = Call("shutdown", None, None)
    /\ IF raised = "none"
       THEN /\ shut' = [shut EXCEPT !.pc = "next"]
            /\ raised' = "pending"
       ELSE IF raised = "CuckooMachineError"
       THEN /\ shut' = [shut EXCEPT !.pc = "next",
                                    !.warned = Append(@, proc.label)]
            /\ raised' = "pending"
       ELSE /\ shut' = [shut EXCEPT !.pc = "idle"]
            /\ UNCHANGED raised

\* The largest number of rows of the machine table explored.
MaxRows == 3

\* The machines of the options given: one machine, or two.
ConfiguredLists == {<<"vm1">>, <<"vm1", "vm2">>}

\* Machinery.set_options(options), lines 172-176; machines is the list
\* of the machines the options configure.
set_options(machines) ==
    /\ proc.pc = "idle"
    /\ shut.pc = "idle"
    /\ check.pc = "idle"
    /\ options' = Options(TRUE, machines)
    /\ raised' = "none"
    /\ last' = Call("set_options", machines, None)
    /\ UNCHANGED <<cfgVars, sigVars, router, proc, db, shut, vms, check,
                   rows>>

\* What libvirt does during one _lookup call: the domain is found, or
\* libvirt.open, conn.lookupByName or conn.close raises libvirtError.
LookupReplies == {"found", "noconnect", "missing", "noclose"}

\* LibVirtMachinery._lookup(label), given what libvirt does: the
\* connections opened and closed are the calls recorded.  An error of
\* conn.close() replaces the one being raised.
_lookup(reply) ==
    IF reply = "noconnect"
    THEN Outcome("CuckooMachineError", "Cannot connect to libvirt", "", <<>>)
    ELSE IF reply = "noclose"
    THEN Outcome("CuckooMachineError", "Cannot disconnect from libvirt", "",
                 <<"open", "close">>)
    ELSE IF reply = "missing"
    THEN Outcome("CuckooMachineError", "Cannot find machine", "",
                 <<"open", "close">>)
    ELSE Outcome("none", "", "", <<"open", "close">>)

\* LibVirtMachinery._fetch_machines(): one _lookup for each machine, in
\* the order of self.machines(); the first that raises ends it.
RECURSIVE _fetch_machines(_)
_fetch_machines(replies) ==
    IF replies = <<>> THEN Outcome("none", "", "", <<>>)
    ELSE LET first == _lookup(Head(replies))
         IN  IF first.error # "none" THEN first
             ELSE LET rest == _fetch_machines(Tail(replies))
                  IN  Outcome(rest.error, rest.msg, "",
                              first.calls \o rest.calls)

\* What libvirt does during one _list call: whether libvirt.open
\* succeeds, whether conn.listDefinedDomains() raises libvirtError, the
\* names it returns otherwise, and whether conn.close() succeeds.
DomainsReply(connect, fails, names, close) ==
    [connect |-> connect, fails |-> fails, names |-> names, close |-> close]

DomainsReplies ==
    {DomainsReply(TRUE, FALSE, names, TRUE) : names \in SUBSET Labels} \cup
    { DomainsReply(FALSE, FALSE, {}, TRUE),
      DomainsReply(TRUE, TRUE, {}, TRUE),
      DomainsReply(TRUE, FALSE, Labels, FALSE) }

\* LibVirtMachinery._list(), given what libvirt does.
_list(reply) ==
    IF ~reply.connect
    THEN Outcome("CuckooMachineError", "Cannot connect to libvirt", "", <<>>)
    ELSE IF ~reply.close
    THEN Outcome("CuckooMachineError", "Cannot disconnect from libvirt", "",
                 <<"open", "close">>)
    ELSE IF reply.fails
    THEN Outcome("CuckooMachineError", "Cannot list domains", "",
                 <<"open", "close">>)
    ELSE Outcome("none", "", "", <<"open", "close">>)

\* Machinery.initialize ends: it returns (error "none") or raises, having
\* made the calls given.
InitializeEnds(error, msg, calls) ==
    /\ proc' = Proc("initialize", "", "idle", 0, "", {}, 0, calls, msg)
    /\ check' = Check("idle", <<>>, 0, {}, 0)
    /\ raised' = error
    /\ last' = Call("initialize", None, None)

\* Machinery.initialize goes on in _initialize_check, as c says.
InitializeGoes(c) ==
    /\ check' = c
    /\ raised' = "pending"
    /\ last' = Call("initialize", None, None)

\* LibVirtMachinery.initialize(module) is called, up to the loop of
\* Machinery._initialize_check (line 243): _initialize reads the options
\* and adds the machines configured to the table (lines 188-228), after
\* the rows it holds already, the table being cleaned by __init__ only;
\* the version check of lines 440-442, version telling whether
\* libvirt.getVersion() is at least 8000; the handles are loaded, one
\* lookup for each row (line 445); _list gives configured_vms (line 239).
\* timeout is the configured cuckoo:timeouts:vm_state.
initialize(version, lookups, listing, timeout) ==
    LET added == rows \o options.machines
        fetched == _fetch_machines(lookups)
        listed == _list(listing)
    IN  /\ proc.pc = "idle"
        /\ shut.pc = "idle"
        /\ check.pc = "idle"
        /\ Len(added) <= MaxRows
        /\ Len(lookups) = Len(added)
        /\ rows' = added
        /\ UNCHANGED <<cfgVars, sigVars, router, db, shut, options>>
        /\ IF ~options.given
           THEN /\ InitializeEnds("AttributeError",
                       "'NoneType' object has no attribute 'get'", <<>>)
                /\ UNCHANGED vms
           ELSE IF ~version
           THEN /\ InitializeEnds("CuckooMachineError",
                       "Libvirt version is not supported", <<>>)
                /\ UNCHANGED vms
           ELSE IF fetched.error # "none"
           THEN /\ InitializeEnds(fetched.error, fetched.msg, fetched.calls)
                /\ UNCHANGED vms
           ELSE /\ vms' = Vms("dict", {added[i] : i \in DOMAIN added})
                /\ IF listed.error # "none"
                   THEN InitializeEnds(listed.error, listed.msg,
                                       fetched.calls \o listed.calls)
                   ELSE /\ InitializeGoes(Check("next", added, 0,
                                                listing.names, timeout))
                        /\ proc' = Proc("initialize", "", "idle", 0, "", {},
                                        0, fetched.calls \o listed.calls, "")

\* Lines 243-248: the next machine of the loop.  A machine of
\* configured_vms is polled, and the loop goes on when it is powered off
\* or aborted; any other machine is to be stopped.  An exception of
\* _status leaves initialize.
InitializeNext(reply) ==
    LET machine == check.machines[check.done + 1]
        out == _status(reply)
        calls == proc.calls \o out.calls
    IN  /\ check.pc = "next"
        /\ proc.pc = "idle"
        /\ check.done < Len(check.machines)
        /\ UNCHANGED <<cfgVars, sigVars, router, shut, vms, options, rows>>
        /\ IF machine \notin check.listed
           THEN /\ InitializeGoes([check EXCEPT !.pc = "stop"])
                /\ UNCHANGED <<proc, db>>
           ELSE /\ db' = set_status(machine, out)
                /\ IF out.error # "none"
                   THEN InitializeEnds(out.error, out.msg, calls)
                   ELSE /\ proc' = [proc EXCEPT !.calls = calls]
                        /\ IF out.value \in {POWEROFF, ABORTED}
                           THEN InitializeGoes([check EXCEPT !.done = @ + 1])
                           ELSE InitializeGoes([check EXCEPT !.pc = "stop"])

\* Lines 252-253: stop is called for the machine.  The calls made so far
\* are kept in check.
InitializeStop ==
    /\ check.pc = "stop"
    /\ proc.pc = "idle"
    /\ Stopping(check.machines[check.done + 1], check.timeout)
    /\ check' = [check EXCEPT !.pc = "stopping", !.calls = proc.calls]
    /\ UNCHANGED <<cfgVars, sigVars, router, shut, vms, options, rows>>

\* Lines 252-259: the stop called by initialize has ended.  A
\* CuckooMachineError becomes a CuckooCriticalError; any other exception
\* leaves initialize as it is; the loop goes on when stop has returned.
InitializeCaught ==
    LET calls == check.calls \o proc.calls
    IN  /\ check.pc = "stopping"
        /\ proc.pc = "idle"
        /\ UNCHANGED <<cfgVars, sigVars, router, db, shut, vms, options, rows>>
        /\ IF raised = "none"
           THEN /\ InitializeGoes([check EXCEPT !.pc = "next",
                                                !.done = @ + 1])
                /\ proc' = Proc("initialize", "", "idle", 0, "", {}, 0,
                                calls, "")
           ELSE IF raised = "CuckooMachineError"
           THEN InitializeEnds("CuckooCriticalError",
                               "Please update your configuration", calls)
           ELSE InitializeEnds(raised, proc.msg, calls)

\* Lines 261-265: the loop is over.  A timeout that is not set raises
\* CuckooCriticalError, else initialize returns.
InitializeEnd ==
    /\ check.pc = "next"
    /\ proc.pc = "idle"
    /\ check.done = Len(check.machines)
    /\ UNCHANGED <<cfgVars, sigVars, router, db, shut, vms, options, rows>>
    /\ IF check.timeout = 0
       THEN InitializeEnds("CuckooCriticalError",
                "Virtual machine state change timeout has not been set",
                proc.calls)
       ELSE InitializeEnds("none", "", proc.calls)

\* The calls of an initialize that finds every machine shut off: a
\* connection for each _lookup and for _list, then one poll for each
\* machine.
QuietCalls ==
    <<"open", "close", "open", "close", "open", "close",
      "_status", "open", "state", "close",
      "_status", "open", "state", "close">>

\* The machine manager after set_options with two machines and a first
\* initialize that has found every machine shut off and has returned: the
\* handles are loaded and every machine is recorded as powered off.
Initialized ==
    /\ InitConfiguration
    /\ InitSignature({DefaultMarkcount})
    /\ InitRouter({CallStream})
    /\ proc = Proc("initialize", "", "idle", 0, "", {}, 0, QuietCalls, "")
    /\ db = [l \in Labels |-> [status |-> POWEROFF]]
    /\ shut = Shut("idle", <<>>, <<>>, <<>>, 0)
    /\ vms = Vms("dict", Labels)
    /\ check = Check("idle", <<>>, 0, {}, 0)
    /\ options = Options(TRUE, <<"vm1", "vm2">>)
    /\ rows = <<"vm1", "vm2">>
    /\ raised = "none"
    /\ last = Call("initialize", None, None)

\* What libvirt does during the n lookups of one initialize: every
\* machine is found, the first lookup cannot connect or disconnect, or the
\* last machine is missing.
LookupLists(n) ==
    {[i \in 1..n |-> "found"]} \cup
    {[i \in 1..n |-> IF i = 1 THEN r ELSE "found"] :
         r \in {"noconnect", "noclose"}} \cup
    {[i \in 1..n |-> IF i = n THEN "missing" ELSE "found"]}

\* The inputs of one initialize with n rows in the table: the libvirt
\* version is too old; or a lookup fails; or _list fails; or _list returns
\* and the loop is entered with the configured timeout.  What is not
\* reached is given one value.
InitializeInputs(n) ==
    LET found == [i \in 1..n |-> "found"]
        all == DomainsReply(TRUE, FALSE, Labels, TRUE)
    IN  {[version |-> FALSE, lookups |-> found, listing |-> all,
          timeout |-> MaxTimeout]}
        \cup
        {[version |-> TRUE, lookups |-> lookups, listing |-> all,
          timeout |-> MaxTimeout] : lookups \in LookupLists(n)}
        \cup
        {[version |-> TRUE, lookups |-> found, listing |-> listing,
          timeout |-> MaxTimeout] :
             listing \in {d \in DomainsReplies : _list(d).error # "none"}}
        \cup
        {[version |-> TRUE, lookups |-> found, listing |-> listing,
          timeout |-> timeout] :
             listing \in {d \in DomainsReplies : _list(d).error = "none"},
             timeout \in 0..MaxTimeout}

\* What libvirt does when a caller asks for the status of a machine
\* between two calls of initialize: the machine is shut off or running, or
\* libvirt.open raises.
ProbeReplies ==
    { StatusReply(TRUE, FALSE, <<5, 0>>, TRUE),
      StatusReply(TRUE, FALSE, <<1, 0>>, TRUE),
      StatusReply(FALSE, FALSE, <<>>, TRUE) }

\* A machine manager is constructed, given its options, initialized, used
\* and shut down, and initialized again.
NextInitialize ==
    \/ \E machines \in ConfiguredLists : set_options(machines)
    \/ \E in \in InitializeInputs(Len(rows) + Len(options.machines)) :
           initialize(in.version, in.lookups, in.listing, in.timeout)
    \/ \E reply \in StatusReplies : InitializeNext(reply)
    \/ InitializeStop
    \/ InitializeCaught
    \/ InitializeEnd
    \/ \E reply \in StatusReplies : WaitFirst(reply)
    \/ WaitSleep
    \/ \E reply \in StatusReplies : WaitAgain(reply)
    \/ shutdown(<<>>, MaxTimeout)
    \/ \E reply \in ProbeReplies : CallStatus("vm1", reply)

SpecInitialize == Init /\ [][NextInitialize]_vars

\* The sets of target states a caller waits for.
WaitTargets == {{RUNNING}, {POWEROFF}, {POWEROFF, ERROR}}

NextWait ==
    \/ \E label \in Labels : \E states \in WaitTargets :
           \E timeout \in 0..MaxTimeout : _wait_status(label, states, timeout)
    \/ \E reply \in StatusReplies : WaitFirst(reply)
    \/ WaitSleep
    \/ \E reply \in StatusReplies : WaitAgain(reply)

SpecWait == Initialized /\ [][NextWait]_vars

\* The thread in _wait_status keeps running: sleep and _status return.
WaitRuns ==
    WF_vars(WaitSleep \/
            \E reply \in StatusReplies : WaitFirst(reply) \/ WaitAgain(reply))

SpecWaitFair == SpecWait /\ WaitRuns

\* One machine is started again and again.
NextStart ==
    \/ \E timeout \in 0..MaxTimeout : start("vm1", timeout)
    \/ \E reply \in StatusReplies : WaitFirst(reply)
    \/ WaitSleep
    \/ \E reply \in StatusReplies : WaitAgain(reply)

SpecStart == Initialized /\ [][NextStart]_vars

NextStatus ==
    \E label \in Labels : \E reply \in StatusReplies : CallStatus(label, reply)

SpecStatus == Initialized /\ [][NextStatus]_vars

\* One machine is started and stopped, again and again.
NextPower ==
    \/ \E timeout \in 0..MaxTimeout : start("vm1", timeout)
    \/ \E timeout \in 0..MaxTimeout : stop("vm1", timeout)
    \/ \E reply \in StatusReplies : WaitFirst(reply)
    \/ WaitSleep
    \/ \E reply \in StatusReplies : WaitAgain(reply)

SpecPower == Initialized /\ [][NextPower]_vars

NextShutdown ==
    \/ \E running \in RunningLists : \E timeout \in 0..MaxTimeout :
           shutdown(running, timeout)
    \/ ShutdownNext
    \/ ShutdownCaught
    \/ \E reply \in StatusReplies : WaitFirst(reply)
    \/ WaitSleep
    \/ \E reply \in StatusReplies : WaitAgain(reply)

SpecShutdown == Initialized /\ [][NextShutdown]_vars

\* ---------------------------------------------------------------------
\* The event router and the result aggregator of one analysis, which call
\* the handlers of class Signature (on_call, on_process, on_complete).

\* What a handler invocation does: it returns without a result, it returns
\* True (the signature matched), on_call returns the stop result, or it
\* raises, as Signature.on_call does when a subclass does not override it.
HandlerOutcomes == {"continue", "match", "stop", "fault"}

\* The handler an event kind is delivered to.
HandlerOf(kind) == IF kind = "call" THEN "on_call" ELSE "on_process"

\* The instance is offered the event: it has not faulted, and for a call
\* it has not asked for no more calls.
Offered(r, i) ==
    /\ i \notin r.errored
    /\ r.stream[r.pos] = "call" => r.stopped[i] = 0

\* The next instance, or the next event, or the end of the stream.
Advance(r) ==
    IF r.turn < Len(Instances) THEN [r EXCEPT !.turn = @ + 1]
    ELSE IF r.pos < Len(r.stream) THEN [r EXCEPT !.turn = 1, !.pos = @ + 1]
    ELSE [r EXCEPT !.turn = 1, !.phase = "complete"]

\* The handler's result is recorded for the instance.
Handled(r, i, outcome) ==
    CASE outcome = "fault" ->
            [r EXCEPT !.errored = @ \cup {i},
                      !.faults = Append(@, [instance |-> i, event |-> r.pos])]
      [] outcome = "match" -> [r EXCEPT !.matched = @ \cup {i}]
      [] outcome = "stop" /\ r.stream[r.pos] = "call" ->
            [r EXCEPT !.stopped[i] = r.pos]
      [] OTHER -> r

\* A fault ends the delivery of events.
DeliveredFaultAborts(r, i, outcome) ==
    LET got == [r EXCEPT !.received[i] = Append(@, r.pos)]
    IN  IF ~Offered(r, i) THEN Advance(r)
        ELSE IF outcome = "fault"
        THEN [Handled(got, i, outcome) EXCEPT !.turn = 1, !.phase = "complete"]
        ELSE Advance(Handled(got, i, outcome))

\* The router after the current event was offered to the instance whose
\* turn it is.
Delivered(r, i, outcome) ==
    IF ~Offered(r, i) THEN Advance(r)
    ELSE Advance(Handled([r EXCEPT !.received[i] = Append(@, r.pos)],
                         i, outcome))

\* The router delivers the current event to the next instance.
deliver(outcome) ==
    /\ router.phase = "events"
    /\ router' = Delivered(router, router.turn, outcome)
    /\ raised' = "none"
    /\ last' = Call(HandlerOf(router.stream[router.pos]),
                    [instance |-> router.turn, event |-> router.pos],
                    IF Offered(router, router.turn) THEN outcome ELSE "skipped")
    /\ UNCHANGED <<cfgVars, sigVars, macVars>>

\* After the stream, on_complete is invoked once on every instance that
\* has not faulted.
complete(outcome) ==
    /\ router.phase = "complete"
    /\ LET i == router.turn
           r == IF i \in router.errored THEN router
                ELSE LET c == [router EXCEPT !.completed = @ \cup {i}]
                     IN  IF outcome = "fault"
                         THEN [c EXCEPT !.errored = @ \cup {i},
                                        !.faults = Append(@,
                                            [instance |-> i,
                                             event |-> Len(router.stream) + 1])]
                         ELSE IF outcome = "match"
                         THEN [c EXCEPT !.matched = @ \cup {i}]
                         ELSE c
       IN  router' = IF i < Len(Instances) THEN [r EXCEPT !.turn = i + 1]
                     ELSE [r EXCEPT !.phase = "aggregate"]
    /\ raised' = "none"
    /\ last' = Call("on_complete", [instance |-> router.turn, event |-> 0],
                    outcome)
    /\ UNCHANGED <<cfgVars, sigVars, macVars>>

\* The result aggregator: a finding for each instance that matched and
\* has no error, in evaluation order.
aggregate ==
    /\ router.phase = "aggregate"
    /\ router' = [router EXCEPT
                     !.phase = "done",
                     !.findings = SelectSeq([i \in DOMAIN Instances |-> i],
                                     LAMBDA i : i \in router.matched
                                                /\ i \notin router.errored)]
    /\ raised' = "none"
    /\ last' = Call("aggregate", [instance |-> 0, event |-> 0], "none")
    /\ UNCHANGED <<cfgVars, sigVars, macVars>>

NextRouter ==
    \/ \E outcome \in HandlerOutcomes : deliver(outcome)
    \/ \E outcome \in HandlerOutcomes \ {"stop"} : complete(outcome)
    \/ aggregate

\* An analysis of any stream.
InitAnalysis ==
    /\ InitConfiguration
    /\ InitSignature({DefaultMarkcount})
    /\ InitMachinery
    /\ InitRouter(Streams)
    /\ raised = "none"
    /\ last = Call("__init__", None, None)

SpecRouter == InitAnalysis /\ [][NextRouter]_vars

NextGet ==
    \/ \E entry \in GetFragments : add(entry)
    \/ \E family \in GetFamilies : \E keys \in GetPaths : get(family, keys)

SpecGet == Init /\ [][NextGet]_vars

\* Fragments of two families and one without family, submitted again and
\* again between lookups.
LogFragments ==
    { Frag("Zeus", <<Pair("cnc", Str("1.2.3.4"))>>),
      Frag("Emotet", <<Pair("type", Str("bot"))>>),
      <<Pair("cnc", Str("1.2.3.4"))>> }

LogPaths == { <<>>, <<"cnc">>, <<"type", "bot">> }

NextLog ==
    \/ \E entry \in LogFragments : add(entry)
    \/ \E family \in GetFamilies : \E keys \in LogPaths : get(family, keys)

SpecLog == Init /\ [][NextLog]_vars

----------------------------------------------------------------------------
\* What was submitted, read from the raw log of fragments.

\* The calls of add that got past entry["family"].
Merged == {i \in 1..Len(entries) : HasKey(entries[i], "family")}

\* A scalar counts as a one-element sequence, a sequence gives its elements.
Elements(v) ==
    IF v.kind = "list" THEN [i \in 1..Len(v.items) |-> Str(v.items[i])]
    ELSE <<v>>

\* The non-empty values of the pairs of a fragment whose key is in keys, in
\* iteration order; whole values, or their elements when flat is TRUE.
RECURSIVE PairValues(_, _, _)
PairValues(pairs, keys, flat) ==
    IF pairs = <<>> THEN <<>>
    ELSE LET p == Head(pairs)
             here == IF p.k \in keys /\ Truthy(p.v)
                     THEN (IF flat THEN SelectSeq(Elements(p.v), Truthy)
                           ELSE <<p.v>>)
                     ELSE <<>>
         IN  here \o PairValues(Tail(pairs), keys, flat)

\* The same over the first n calls of add, for one family.
RECURSIVE Submitted(_, _, _, _)
Submitted(n, fam, keys, flat) ==
    IF n = 0 THEN <<>>
    ELSE Submitted(n - 1, fam, keys, flat) \o
         (IF n \in Merged /\ FamilyOf(entries[n]) = fam
          THEN PairValues(entries[n], keys, flat) ELSE <<>>)

\* The first occurrences of a sequence, in order.
RECURSIVE Distinct(_)
Distinct(seq) ==
    IF seq = <<>> THEN <<>>
    ELSE LET front == Distinct(SubSeq(seq, 1, Len(seq) - 1))
             final == seq[Len(seq)]
         IN  IF \E i \in 1..Len(front) : front[i] = final THEN front
             ELSE Append(front, final)

NoDuplicates(seq) ==
    \A i, j \in 1..Len(seq) : i # j => seq[i] # seq[j]

\* The keys a value for the multiple entry field key may be submitted under.
Synonyms(key) ==
    CASE key = "cnc" -> {"cnc", "cncs"}
      [] key = "url" -> {"url", "urls"}
      [] key = "user_agent" -> {"user_agent", "user-agent"}
      [] OTHER -> {key}

SynonymKeys == {"cncs", "urls", "user-agent"}

State(rec) == [family |-> rec, log |-> <<>>]

----------------------------------------------------------------------------
\* C1: no multiple entry field (cnc, url, mutex, user_agent, referrer) of any
\* family record holds the same value twice, and submitting a value that the
\* field already holds leaves the record as it is.
C1_ListFieldsHaveNoDuplicates ==
    \A f \in DOMAIN families : \A key \in keywords2 \cap DOMAIN families[f] :
        /\ NoDuplicates(families[f][key])
        /\ \A i \in 1..Len(families[f][key]) :
              MergeItem(State(families[f]), key, families[f][key][i]).family
                  = families[f]

\* A value was submitted more often than it is stored.
C1_Witness ==
    /\ "Zeus" \in DOMAIN families
    /\ "cnc" \in DOMAIN families["Zeus"]
    /\ Len(families["Zeus"]["cnc"]) = 2
    /\ Len(Submitted(Len(entries), "Zeus", {"cnc"}, TRUE)) = 4

\* C2: each single entry field (type, version, magic, campaign) of a family
\* holds the first non-empty value submitted for it, and every later
\* submission of a different value is logged, once each.
Conflicts ==
    {<<i, j>> \in Merged \X (1..3) :
        /\ j <= Len(entries[i])
        /\ entries[i][j].k \in keywords1
        /\ Truthy(entries[i][j].v)
        /\ entries[i][j].v #
             Submitted(i, FamilyOf(entries[i]), {entries[i][j].k}, FALSE)[1]}

C2_SingletonKeepsFirstValue ==
    /\ \A f \in DOMAIN families : \A key \in keywords1 :
          LET subs == Submitted(Len(entries), f, {key}, FALSE)
          IN  IF subs = <<>> THEN key \notin DOMAIN families[f]
              ELSE key \in DOMAIN families[f] /\ families[f][key] = subs[1]
    /\ Len(errlog) = Cardinality(Conflicts)
    /\ \A i \in 1..Len(errlog) : errlog[i].old # errlog[i].new

\* type="A" then type="B": type stays "A" and one conflict is logged.
C2_Witness ==
    /\ Len(entries) = 2
    /\ entries[1] = Frag("Zeus", <<Pair("type", Str("A"))>>)
    /\ entries[2] = Frag("Zeus", <<Pair("type", Str("B"))>>)
    /\ families["Zeus"]["type"] = Str("A")
    /\ Len(errlog) = 1

\* C3: results() holds one record per distinct family name, in the order in
\* which the names were first submitted.
RECURSIVE FamiliesSubmitted(_)
FamiliesSubmitted(n) ==
    IF n = 0 THEN <<>>
    ELSE FamiliesSubmitted(n - 1) \o
         (IF n \in Merged THEN <<FamilyOf(entries[n])>> ELSE <<>>)

C3_ResultsInFirstSubmissionOrder ==
    [i \in 1..Len(results) |-> results[i]["family"].s]
        = Distinct(FamiliesSubmitted(Len(entries)))

\* Families B, A, B give the order B, A.
C3_Witness ==
    /\ FamiliesSubmitted(Len(entries)) = <<"B", "A", "B">>
    /\ Len(results) = 2
    /\ results[1]["family"] = Str("B")
    /\ results[2]["family"] = Str("A")

\* C4: add with a fragment that has no 'family' key raises and changes
\* nothing: entries, order and families are as before the call.
C4_MissingFamilyMutatesNothing ==
    [][raised' = "KeyError"
         => entries' = entries /\ order' = order /\ families' = families]_vars

\* C5: add with a fragment whose 'family' is the empty string is rejected:
\* no record is created for the empty name, order and families do not change.
C5_EmptyFamilyRejected ==
    [][(/\ Len(entries') = Len(entries) + 1
        /\ HasKey(entries'[Len(entries')], "family")
        /\ FamilyOf(entries'[Len(entries')]) = "")
         => (/\ order' = order
             /\ families' = families
             /\ "" \notin DOMAIN families')]_vars

\* C6: each multiple entry field of a family is the sequence of the distinct
\* non-empty values submitted for it (under its key or a synonym), in order
\* of first submission; a scalar is one value, a sequence gives its elements.
C6_ListFieldIsDistinctSubmittedValues ==
    \A f \in DOMAIN families : \A key \in keywords2 :
        LET want == Distinct(Submitted(Len(entries), f, Synonyms(key), TRUE))
        IN  /\ key \in DOMAIN families[f] => families[f][key] = want
            /\ want # <<>> => key \in DOMAIN families[f]

\* Zeus with cnc 1.2.3.4 and mutex abc, then cnc 1.2.3.4 and url http://x.
C6_Witness ==
    /\ Len(entries) = 2
    /\ entries[1] = Frag("Zeus", <<Pair("cnc", Str("1.2.3.4")),
                                   Pair("mutex", Str("abc"))>>)
    /\ entries[2] = Frag("Zeus", <<Pair("cnc", Str("1.2.3.4")),
                                   Pair("url", Str("http://x"))>>)
    /\ results = << [x \in {"family", "cnc", "mutex", "url"} |->
                       CASE x = "family" -> Str("Zeus")
                         [] x = "cnc" -> <<Str("1.2.3.4")>>
                         [] x = "mutex" -> <<Str("abc")>>
                         [] x = "url" -> <<Str("http://x")>>] >>

----------------------------------------------------------------------------
\* The locations of a family record: a top-level field, a list under 'key',
\* a list under 'extra'.

Bucket(rec, name) == IF name \in DOMAIN rec THEN rec[name] ELSE EmptyDict

Differ(d1, d2) ==
    {k \in (DOMAIN d1) \cup (DOMAIN d2) :
        ~(k \in DOMAIN d1 /\ k \in DOMAIN d2 /\ d1[k] = d2[k])}

Top(rec) == [k \in (DOMAIN rec) \ {"key", "extra"} |-> rec[k]]

Changed(r1, r2) ==
    {<<"top", k>> : k \in Differ(Top(r1), Top(r2))}
    \cup {<<"key", k>> : k \in Differ(Bucket(r1, "key"), Bucket(r2, "key"))}
    \cup {<<"extra", k>> : k \in Differ(Bucket(r1, "extra"), Bucket(r2, "extra"))}

\* skip > normalize > singleton > list > keyed-crypto > extra
Canonical(key) ==
    CASE key = "cncs" -> "cnc"
      [] key = "urls" -> "url"
      [] key = "user-agent" -> "user_agent"
      [] OTHER -> key

PolicyLocation(key) ==
    IF key \in {"family", "extra"} THEN {}
    ELSE IF Canonical(key) \in {"type", "version", "magic", "campaign"}
         THEN {<<"top", Canonical(key)>>}
    ELSE IF Canonical(key) \in {"cnc", "url", "mutex", "user_agent", "referrer"}
         THEN {<<"top", Canonical(key)>>}
    ELSE IF Canonical(key) \in {"des3key", "rc4key", "xorkey", "pubkey",
                                "privkey", "iv"}
         THEN {<<"key", Canonical(key)>>}
    ELSE {<<"extra", Canonical(key)>>}

\* The locations the pairs of a fragment may change, one for each pair with
\* a non-empty value.
RECURSIVE PolicyLocations(_)
PolicyLocations(pairs) ==
    IF pairs = <<>> THEN {}
    ELSE (IF Truthy(Head(pairs).v) THEN PolicyLocation(Head(pairs).k) ELSE {})
         \cup PolicyLocations(Tail(pairs))

\* C7: every (key, non-empty value) pair of a fragment is handled by one
\* policy, in the precedence skip > normalize > singleton > list >
\* keyed-crypto > extra: add changes at most the one location of the family
\* record that belongs to the policy of each pair, and the keys 'family' and
\* 'extra' change no field of it.
C7_OnePolicyPerKey ==
    [][(Len(entries') = Len(entries) + 1
        /\ HasKey(entries'[Len(entries')], "family"))
         => LET entry == entries'[Len(entries')]
                name == FamilyOf(entry)
                before == IF name \in DOMAIN families THEN families[name]
                          ELSE [x \in {"family"} |-> Str(name)]
            IN  Changed(before, families'[name])
                    \subseteq PolicyLocations(entry)]_vars

\* A record with a singleton, a list, a key list and an extra list, after
\* fragments that carried the keys 'family' and 'extra'.
C7_Witness ==
    /\ Len(entries) = 3
    /\ "Zeus" \in DOMAIN families
    /\ {"type", "key", "extra"} \subseteq DOMAIN families["Zeus"]
    /\ entries[1] = Frag("Zeus", <<Pair("extra", Str("a"))>>)
    /\ families["Zeus"]["extra"] = [x \in {"foo"} |-> <<Str("a")>>]

\* C8: a value submitted under a synonym key (cncs, urls, user-agent) has the
\* effect of the same value submitted under the canonical key, and no record
\* holds a field or an extra entry named after a synonym.
C8_SynonymIsCanonicalKey ==
    \A f \in DOMAIN families :
        /\ SynonymKeys \cap DOMAIN families[f] = {}
        /\ SynonymKeys \cap DOMAIN Bucket(families[f], "extra") = {}
        /\ \A key \in SynonymKeys :
           \A v \in {Str("1.2.3.4"), Str("ua"), List(<<"5.6.7.8", "1.1.1.1">>)} :
              MergeItem(State(families[f]), key, v)
                  = MergeItem(State(families[f]), Canonical(key), v)

\* cncs 1.2.3.4 after cnc 1.2.3.4: one stored value, under cnc.
C8_Witness ==
    /\ Len(entries) = 3
    /\ entries[1] = Frag("Zeus", <<Pair("cnc", Str("1.2.3.4"))>>)
    /\ entries[2] = Frag("Zeus", <<Pair("cncs", Str("1.2.3.4"))>>)
    /\ entries[3] = Frag("Zeus", <<Pair("cncs", Str("5.6.7.8"))>>)
    /\ families["Zeus"]["cnc"] = <<Str("1.2.3.4"), Str("5.6.7.8")>>

\* C9: every non-empty value submitted under an encryption key kind k is
\* stored once in key[k], in order of first submission, and neither at the
\* top level of the record nor under 'extra'.
C9_CryptoValuesUnderKey ==
    \A f \in DOMAIN families : \A kind \in keywords3 :
        LET want == Distinct(Submitted(Len(entries), f, {kind}, FALSE))
            keys == Bucket(families[f], "key")
        IN  /\ kind \notin DOMAIN families[f]
            /\ kind \notin DOMAIN Bucket(families[f], "extra")
            /\ IF want = <<>> THEN kind \notin DOMAIN keys
               ELSE kind \in DOMAIN keys /\ keys[kind] = want

\* rc4key k1, k2, k1.
C9_Witness ==
    /\ Len(entries) = 3
    /\ Submitted(3, "Zeus", {"rc4key"}, FALSE)
          = <<Str("k1"), Str("k2"), Str("k1")>>
    /\ families["Zeus"]["key"]["rc4key"] = <<Str("k1"), Str("k2")>>

\* C10: every non-empty value submitted under a key that is not skipped, not
\* a synonym and not a singleton, list or encryption key is stored once in
\* extra[key], in order of first submission.
ExtraKeys ==
    {"foo", "key", "bar"}

C10_OtherValuesUnderExtra ==
    \A f \in DOMAIN families :
        /\ DOMAIN Bucket(families[f], "extra") \subseteq ExtraKeys
        /\ \A key \in ExtraKeys :
              LET want == Distinct(Submitted(Len(entries), f, {key}, FALSE))
                  extra == Bucket(families[f], "extra")
              IN  IF want = <<>> THEN key \notin DOMAIN extra
                  ELSE key \in DOMAIN extra /\ extra[key] = want

\* foo a, b, a.
C10_Witness ==
    /\ Len(entries) = 3
    /\ Submitted(3, "Zeus", {"foo"}, FALSE) = <<Str("a"), Str("b"), Str("a")>>
    /\ families["Zeus"]["extra"]["foo"] = <<Str("a"), Str("b")>>

----------------------------------------------------------------------------
\* C11: Configuration.get never raises, whatever the family and the key path,
\* also when the path goes on below a stored list or scalar.
C11_GetNeverRaises ==
    last.op = "get" => raised = "none"


\* The fragment and the record it was merged into, for a call of add that
\* got past entry["family"].
AddMerged == last'.op = "add" /\ raised' = "none" /\ entries' # entries

RecordBefore(entry) ==
    IF FamilyOf(entry) \in DOMAIN families THEN families[FamilyOf(entry)]
    ELSE [x \in {"family"} |-> Str(FamilyOf(entry))]

\* The pairs of a fragment whose value is empty: "", [] or None.
EmptyPairs(entry) ==
    {j \in 1..Len(entry) :
        entry[j].v = None \/ entry[j].v = Str("") \/ entry[j].v = List(<<>>)}

\* The fragment without the pairs at the positions in drop.
RECURSIVE Without(_, _, _)
Without(entry, drop, n) ==
    IF n = 0 THEN <<>>
    ELSE Without(entry, drop, n - 1) \o
         (IF n \in drop THEN <<>> ELSE <<entry[n]>>)

\* The location a pair is stored at.
LocationValue(rec, loc) ==
    IF loc[1] = "top"
    THEN (IF loc[2] \in DOMAIN rec THEN <<rec[loc[2]]>> ELSE <<>>)
    ELSE (IF loc[2] \in DOMAIN Bucket(rec, loc[1])
          THEN <<Bucket(rec, loc[1])[loc[2]]>> ELSE <<>>)

\* C12: a fragment key whose value is empty ("", [] or None) changes nothing
\* in the family record: the record after add is the one the fragment without
\* its empty keys gives, and a field named by an empty key alone is neither
\* created, emptied nor overwritten.
C12_EmptyValuesChangeNothing ==
    [][AddMerged =>
        LET entry == last'.arg
            before == RecordBefore(entry)
            after == families'[FamilyOf(entry)]
            kept == Without(entry, EmptyPairs(entry), Len(entry))
        IN  /\ after = MergeItems(State(before), kept).family
            /\ \A j \in EmptyPairs(entry) : \A loc \in PolicyLocation(entry[j].k) :
                  loc \notin PolicyLocations(kept)
                      => LocationValue(after, loc) = LocationValue(before, loc)
       ]_vars

\* type "" and cnc y after type A and cnc x: type stays, cnc grows.
C12_Witness ==
    /\ Len(entries) = 2
    /\ entries[1] = Frag("Zeus", <<Pair("type", Str("A")), Pair("cnc", Str("x"))>>)
    /\ entries[2] = Frag("Zeus", <<Pair("type", Str("")), Pair("cnc", Str("y"))>>)
    /\ families["Zeus"]["type"] = Str("A")
    /\ families["Zeus"]["cnc"] = <<Str("x"), Str("y")>>

\* The pairs of a fragment that conflict with a stored single entry value.
ConflictingPairs(entry, rec) ==
    {j \in 1..Len(entry) :
        /\ entry[j].k \in {"type", "version", "magic", "campaign"}
        /\ Truthy(entry[j].v)
        /\ entry[j].k \in DOMAIN rec
        /\ rec[entry[j].k] # entry[j].v}

\* C13: a singleton conflict is not fatal: add returns, and every other key
\* of the fragment is merged as if the conflicting key were absent.
C13_ConflictIsNotFatal ==
    [][(last'.op = "add" /\ entries' # entries
        /\ HasKey(last'.arg, "family")
        /\ ConflictingPairs(last'.arg, RecordBefore(last'.arg)) # {})
         => LET entry == last'.arg
                before == RecordBefore(entry)
                rest == Without(entry, ConflictingPairs(entry, before),
                                Len(entry))
            IN  /\ raised' = "none"
                /\ families'[FamilyOf(entry)]
                       = MergeItems(State(before), rest).family
                /\ Len(errlog') = Len(errlog)
                       + Cardinality(ConflictingPairs(entry, before))
       ]_vars

\* type B and cnc y after type A and cnc x: type stays A, cnc grows, and the
\* conflict is logged.
C13_Witness ==
    /\ Len(entries) = 2
    /\ entries[1] = Frag("Zeus", <<Pair("type", Str("A")), Pair("cnc", Str("x"))>>)
    /\ entries[2] = Frag("Zeus", <<Pair("type", Str("B")), Pair("cnc", Str("y"))>>)
    /\ families["Zeus"]["type"] = Str("A")
    /\ families["Zeus"]["cnc"] = <<Str("x"), Str("y")>>
    /\ Len(errlog) = 1
    /\ raised = "none"

----------------------------------------------------------------------------
\* Marks.

Field(m, name) == IF name \in DOMAIN m THEN <<m[name]>> ELSE <<>>

IsIoc(m) == Field(m, "type") = <<Str("ioc")>>

\* A stored mark with these four values.
StoredWith(ms, category, infoSource, ioc, description) ==
    \E i \in 1..Len(ms) :
        /\ Field(ms[i], "category") = <<category>>
        /\ Field(ms[i], "infoSource") = <<infoSource>>
        /\ Field(ms[i], "ioc") = <<ioc>>
        /\ Field(ms[i], "description") = <<description>>

\* The mark of type 'ioc' with these four values and no other field.
IocMark(category, infoSource, ioc, description) ==
    [x \in {"type", "category", "infoSource", "ioc", "description"} |->
        CASE x = "type" -> Str("ioc")
          [] x = "category" -> category
          [] x = "infoSource" -> infoSource
          [] x = "ioc" -> ioc
          [] x = "description" -> description]

\* A stored mark identical to the given one.
StoredMark(ms, m) ==
    \E i \in 1..Len(ms) : DOMAIN ms[i] = DOMAIN m /\ ms[i] = m

\* C14 as stated: mark_ioc(category, ioc, infoSource, description) appends a
\* mark only if no stored mark has the same category, infoSource, ioc and
\* description.
C14_MarkIocAppendsOnlyNewValues ==
    [][last'.op = "mark_ioc" =>
        LET a == last'.arg IN
        StoredWith(marks, a[1], a[3], a[2], a[4]) => marks' = marks]_vars

\* C14, amended: mark_ioc(category, ioc, infoSource, description) appends its
\* mark (type 'ioc' and the four values) if and only if no stored mark is
\* identical to it: a repeated call leaves marks unchanged, a call that
\* differs in description only appends a second mark.
C14_MarkIocAppendsUnlessIdenticalStored ==
    [][last'.op = "mark_ioc" =>
        LET a == last'.arg
            m == IocMark(a[1], a[3], a[2], a[4])
        IN  IF StoredMark(marks, m) THEN marks' = marks
            ELSE marks' = Append(marks, m)]_vars

\* Two identical calls and one with another description: two marks.
C14_Witness ==
    /\ Len(marks) = 2
    /\ marks[1] = IocMark(Str("file"), None, Str("a.exe"), None)
    /\ marks[2] = IocMark(Str("file"), None, Str("a.exe"), Str("dropped"))
    /\ last = Call("mark_ioc", <<Str("file"), Str("a.exe"), None, None>>, None)

\* C15: after any sequence of mark operations, with any arguments they
\* accept, marks holds no two marks of type 'ioc' with identical field
\* values.
C15_NoTwoIdenticalIocMarks ==
    \A i, j \in 1..Len(marks) :
        i < j /\ IsIoc(marks[i]) /\ DOMAIN marks[i] = DOMAIN marks[j]
            => marks[i] # marks[j]

\* C16: Signature.results() returns as 'marks' the first min(cap, total)
\* stored marks in insertion order, cap being the markcount of the signature
\* class, and as 'markcount' the total number of stored marks; the stored
\* marks stay as they are.
C16_ResultsCapsMarks ==
    [][last'.op = "results" =>
        LET n == IF markcount < Len(marks) THEN markcount ELSE Len(marks)
        IN  /\ marks' = marks
            /\ last'.ret.markcount = Len(marks)
            /\ Len(last'.ret.marks) = n
            /\ \A i \in 1..n : last'.ret.marks[i] = marks[i]
       ]_vars

\* 60 marks that all differ, with a cap of 50: the first 50 marks, which
\* are not the last 50, and a count of 60.
C16_Witness ==
    /\ last.op = "results"
    /\ markcount = 50
    /\ Len(marks) = 60
    /\ \A i, j \in 1..60 : i # j => marks[i] # marks[j]
    /\ last.ret.marks = SubSeq(marks, 1, 50)
    /\ last.ret.marks # SubSeq(marks, 11, 60)
    /\ last.ret.markcount = 60

\* The fragment has a family name that is not empty.
HasFamilyName(config) ==
    /\ config.dict
    /\ HasKey(config.items, "family")
    /\ FamilyOf(config.items) # ""

\* C17: mark_config fails with an error whenever the fragment lacks a
\* non-empty family name ('family' missing or empty), and then no mark is
\* appended.
C17_MarkConfigNeedsFamilyName ==
    [][(last'.op = "mark_config" /\ ~HasFamilyName(last'.arg))
         => raised' = "CuckooCriticalError" /\ marks' = marks]_vars

\* C18: after a successful mark_config(fragment) the shared Configuration
\* holds a record for the family of the fragment.
C18_MarkConfigSubmitsFragment ==
    (last.op = "mark_config" /\ raised = "none")
        => /\ FamilyOf(last.arg.items) \in DOMAIN families
           /\ Len(entries) > 0

\* The calls that append a mark whatever is stored.
AlwaysAppends(c) ==
    \/ c.op \in {"mark_call", "mark_vol", "mark"}
    \/ c.op = "mark_config" /\ c.arg.dict /\ HasKey(c.arg.items, "family")

\* C19: marks is append-only: every call leaves marks unchanged or appends
\* one mark at its end; mark_call, mark_vol, a valid mark_config and mark
\* append one mark even when an identical mark is stored.
C19_MarksAppendOnly ==
    [][/\ \/ marks' = marks
          \/ /\ Len(marks') = Len(marks) + 1
             /\ SubSeq(marks', 1, Len(marks)) = marks
       /\ AlwaysAppends(last') => Len(marks') = Len(marks) + 1
       /\ (last'.op = "mark_config" /\ raised' # "none") => marks' = marks
      ]_vars

\* Three identical call marks, and a duplicate IOC that was dropped.
C19_Witness ==
    /\ Len(marks) = 3
    /\ marks[1] = marks[2]
    /\ marks[2] = marks[3]
    /\ Field(marks[1], "type") = <<Str("call")>>
    /\ last.op = "mark_call"

\* The value returned, as the set of strings it holds.
Returned(ret) ==
    IF ret.kind = "list" THEN {ret.items[i] : i \in DOMAIN ret.items}
    ELSE IF ret.kind = "none" THEN {}
    ELSE {ret}

\* The candidates equal to the pattern when case is ignored.
EqualIgnoringCase(pattern, subject) ==
    {c \in Candidates(subject) : lower(c.s) = lower(pattern.s)}

\* C20: in non-regex mode a candidate matches if and only if it equals the
\* pattern ignoring case, for a single-string subject and for a list
\* subject alike: with all the call returns exactly those candidates, and
\* without all one of them, or None when there is none.
C20_NonRegexIgnoresCase ==
    (last.op = "_check_value" /\ ~last.arg.regex) =>
        LET matching == EqualIgnoringCase(last.arg.pattern, last.arg.subject)
        IN  /\ Returned(last.ret) \subseteq matching
            /\ last.arg.all => Returned(last.ret) = matching
            /\ matching # {} => Returned(last.ret) # {}

\* One pattern character stands for one character of the string, ignoring
\* case: itself, or for "." any character that is not a newline.
SameIgnoringCase(p, c) ==
    (p = "." /\ c # "\n") \/ lower(<<p>>) = lower(<<c>>)

RECURSIVE FullMatch(_, _)
\* The pattern describes the whole string: "." stands for one character
\* other than a newline and x* for any number of x.
FullMatch(p, cs) ==
    IF p = <<>> THEN cs = <<>>
    ELSE IF Len(p) >= 2 /\ p[2] = "*"
         THEN \E n \in 0..Len(cs) :
                  /\ \A i \in 1..n : SameIgnoringCase(p[1], cs[i])
                  /\ FullMatch(Tail(Tail(p)), SubSeq(cs, n + 1, Len(cs)))
    ELSE /\ cs # <<>>
         /\ SameIgnoringCase(p[1], cs[1])
         /\ FullMatch(Tail(p), Tail(cs))

\* The candidates with a prefix the pattern describes: the match starts at
\* the first character and need not consume the rest.
MatchedFromStart(pattern, subject) ==
    {c \in Candidates(subject) :
        \E n \in 0..Len(c.s) : FullMatch(pattern.s, SubSeq(c.s, 1, n))}

\* C21: in regex mode a candidate matches if and only if the pattern
\* matches it, ignoring case, from its first character, trailing content
\* allowed: with all the call returns exactly those candidates, and without
\* all one of them, or None when there is none.
C21_RegexMatchesFromStart ==
    (last.op = "_check_value" /\ last.arg.regex /\ raised = "none") =>
        LET matching == MatchedFromStart(last.arg.pattern, last.arg.subject)
        IN  /\ Returned(last.ret) \subseteq matching
            /\ last.arg.all => Returned(last.ret) = matching
            /\ matching # {} => Returned(last.ret) # {}

\* "abc.*" against ["ABCDEF", "XABCDEF"] has returned only "ABCDEF".
C21_Witness ==
    /\ last.op = "_check_value"
    /\ last.arg.regex /\ last.arg.all
    /\ last.arg.pattern = Str(<<"a", "b", "c", ".", "*">>)
    /\ last.arg.subject =
           List(<<Str(<<"A", "B", "C", "D", "E", "F">>),
                  Str(<<"X", "A", "B", "C", "D", "E", "F">>)>>)
    /\ raised = "none"
    /\ last.ret = List(<<Str(<<"A", "B", "C", "D", "E", "F">>)>>)

\* C22: with all the call returns a list that holds exactly the candidates
\* that matched, each distinct string once however often the subject holds
\* it, the empty list when nothing matched, and no string that is not a
\* candidate of the subject.
C22_AllReturnsTheMatchSet ==
    (last.op = "_check_value" /\ last.arg.all /\ raised = "none") =>
        /\ last.ret.kind = "list"
        /\ NoDuplicates(last.ret.items)
        /\ Returned(last.ret) \subseteq Candidates(last.arg.subject)
        /\ Returned(last.ret) =
               MatchSet(last.arg.pattern, last.arg.subject, last.arg.regex)

\* A candidate held twice by the subject has been returned once.
C22_Witness ==
    /\ last.op = "_check_value"
    /\ last.arg.all /\ ~last.arg.regex
    /\ last.arg.pattern = Str(<<"a", "b">>)
    /\ last.arg.subject = List(<<Str(<<"A", "B">>), Str(<<"A", "B">>)>>)
    /\ last.ret = List(<<Str(<<"A", "B">>)>>)

\* Nothing matched and the empty list has been returned.
C22_WitnessEmpty ==
    /\ last.op = "_check_value"
    /\ last.arg.all
    /\ last.arg.subject.kind = "list" /\ last.arg.subject.items # <<>>
    /\ raised = "none"
    /\ last.ret = List(<<>>)

\* C23: without all the call returns a member of the match set whenever a
\* candidate matched, and None exactly when no candidate matched.
C23_OneReturnsAMemberOrNone ==
    (last.op = "_check_value" /\ ~last.arg.all /\ raised = "none") =>
        LET ret == MatchSet(last.arg.pattern, last.arg.subject, last.arg.regex)
        IN  /\ last.ret.kind = "none" <=> ret = {}
            /\ last.ret.kind # "none" => last.ret \in ret

\* Two different candidates matched and the second has been returned.
C23_Witness ==
    /\ last.op = "_check_value"
    /\ ~last.arg.all /\ ~last.arg.regex
    /\ last.arg.pattern = Str(<<"a", "b">>)
    /\ last.arg.subject = List(<<Str(<<"a", "b">>), Str(<<"A", "B">>)>>)
    /\ last.ret = Str(<<"A", "B">>)

\* The family names in order.
OrderNames(ord) == {ord[i] : i \in DOMAIN ord}

\* order and families describe the same families, each once, each record
\* under its own name.
OrderMatchesFamilies(ord, fams) ==
    /\ NoDuplicates(ord)
    /\ OrderNames(ord) = DOMAIN fams
    /\ \A n \in DOMAIN fams :
           "family" \in DOMAIN fams[n] /\ fams[n]["family"] = Str(n)

\* C25: after every add, order has no duplicates, the names in order are
\* the keys of families and every record's 'family' field is the name it
\* is stored under; the first submission of a family appends it to order
\* and creates its record in the same call, any other call adds no family.
C25_OrderAndFamiliesAgree ==
    [][last'.op = "add" =>
        /\ OrderMatchesFamilies(order', families')
        /\ IF raised' = "none" /\ FamilyOf(last'.arg) \notin DOMAIN families
           THEN /\ order' = Append(order, FamilyOf(last'.arg))
                /\ DOMAIN families' = DOMAIN families \cup {FamilyOf(last'.arg)}
           ELSE /\ order' = order
                /\ DOMAIN families' = DOMAIN families]_vars

\* B, A and B again were submitted: two families, each once.
C25_Witness ==
    /\ Len(entries) = 3
    /\ \A i \in 1..3 : HasKey(entries[i], "family")
    /\ FamilyOf(entries[1]) = "B" /\ FamilyOf(entries[3]) = "B"
    /\ order = <<"B", "A">>
    /\ DOMAIN families = {"A", "B"}
    /\ raised = "none"

\* C26: submitting the fragment of the previous add again leaves families
\* and order as they were after the first of the two submissions.
C26_AddTwiceIsAddOnce ==
    [][(last.op = "add" /\ last'.op = "add" /\ last'.arg = last.arg) =>
        families' = families /\ order' = order]_vars

\* A fragment with a single entry, an encryption key and another key was
\* submitted twice in a row.
C26_Witness ==
    /\ Len(entries) = 2
    /\ entries[1] = entries[2]
    /\ "Zeus" \in DOMAIN families
    /\ "type" \in DOMAIN families["Zeus"]
    /\ "key" \in DOMAIN families["Zeus"]
    /\ "extra" \in DOMAIN families["Zeus"]

\* C27: add for family F leaves the record of every other family as it
\* was, and the families already in order keep their places.
C27_AddChangesOneFamily ==
    [][last'.op = "add" =>
        /\ \A n \in DOMAIN families :
               (raised' = "none" /\ n = FamilyOf(last'.arg)) \/
               (n \in DOMAIN families' /\ families'[n] = families[n])
        /\ Len(order') >= Len(order)
        /\ SubSeq(order', 1, Len(order)) = order]_vars

\* Two families hold values and the last fragment went to the first one.
C27_Witness ==
    /\ Len(entries) = 3
    /\ order = <<"Zeus", "Emotet">>
    /\ "cnc" \in DOMAIN families["Emotet"]
    /\ HasKey(entries[3], "family")
    /\ FamilyOf(entries[3]) = "Zeus"
    /\ "url" \in DOMAIN families["Zeus"]

\* The category, infoSource, ioc and description of a mark_ioc or
\* mark_esunioc call.
IocValues(c) ==
    IF c.op = "mark_ioc"
    THEN [category |-> c.arg[1], infoSource |-> c.arg[3],
          ioc |-> c.arg[2], description |-> c.arg[4]]
    ELSE [category |-> c.arg[1], infoSource |-> c.arg[2],
          ioc |-> c.arg[3], description |-> c.arg[4]]

\* C28: mark_esunioc(category, infoSource, ioc, description) and
\* mark_ioc(category, ioc, infoSource, description) build the same mark and
\* deduplicate against each other: when one follows the other with the same
\* four values, the second call stores nothing and the mark is stored.
C28_EsuniocAndIocShareOneMark ==
    [][(/\ last.op \in {"mark_ioc", "mark_esunioc"}
        /\ last'.op \in {"mark_ioc", "mark_esunioc"}
        /\ last'.op # last.op
        /\ IocValues(last') = IocValues(last)) =>
        LET v == IocValues(last') IN
        /\ marks' = marks
        /\ StoredMark(marks', IocMark(v.category, v.infoSource, v.ioc,
                                      v.description))]_vars

\* The first of two stored marks has an infoSource, and mark_esunioc was
\* called last with its values.
C28_Witness ==
    /\ Len(marks) = 2
    /\ marks[1] = IocMark(Str("file"), Str("memory"), Str("a.exe"), None)
    /\ marks[2] = IocMark(Str("file"), None, Str("a.exe"), None)
    /\ last = Call("mark_esunioc",
                   <<Str("file"), Str("memory"), Str("a.exe"), None>>, None)

\* The number of times a call was made.
Count(calls, name) == Cardinality({i \in DOMAIN calls : calls[i] = name})

\* A _wait_status call has ended.
WaitEnded == proc.op = "_wait_status" /\ proc.pc = "idle"

\* It raised the timeout error.
TimedOut == raised = "CuckooMachineError" /\ proc.msg = "Timeout hit"

\* C29 as stated: _wait_status returns only when the last polled status is a
\* target state and otherwise raises CuckooMachineError for the timeout,
\* having waited more than T intervals, after at most T+2 polls, and never
\* while the last polled status is a target state.
C29_WaitReturnsOnTargetOrTimesOut ==
    WaitEnded =>
        /\ Count(proc.calls, "_status") <= proc.timeout + 2
        /\ IF raised = "none" THEN proc.current \in proc.states
           ELSE /\ TimedOut
                /\ proc.waitme > proc.timeout
                /\ proc.current \notin proc.states

\* What a _wait_status call does at any moment, and how it has ended.
WaitOutcome ==
    proc.op = "_wait_status" =>
        /\ Count(proc.calls, "_status") <= proc.timeout + 2
        /\ proc.pc # "enter" => Count(proc.calls, "_status") = proc.waitme + 1
        /\ proc.pc \in {"wait", "asleep"} =>
               proc.current \notin proc.states /\ proc.current # ""
        /\ proc.pc = "asleep" => proc.waitme <= proc.timeout
        /\ proc.pc = "idle" =>
               \/ raised = "none" /\ proc.current \in proc.states
               \/ raised = "none" /\ proc.current = "" /\ proc.waitme = 0
               \/ raised = "CuckooMachineError" /\ ~TimedOut /\ proc.current = ""
               \/ raised = "UnboundLocalError" /\ proc.current = ""
                     /\ proc.waitme > 0
               \/ /\ TimedOut
                  /\ proc.waitme = proc.timeout + 1
                  /\ proc.current \notin proc.states

\* C29, amended: _wait_status always ends, after at most T+2 polls; it
\* returns as soon as a polled status is a target state, and at once when
\* the first poll raises NameError; any other exception of a poll
\* propagates; otherwise it raises the timeout error once it has waited
\* more than T intervals, never while the last polled status is a target.
C29_WaitTerminates ==
    /\ []WaitOutcome
    /\ (proc.pc # "idle") ~> (proc.pc = "idle")

\* The timeout was hit after T+2 polls, T = 1.
C29_Witness ==
    /\ WaitEnded /\ TimedOut
    /\ proc.timeout = 1
    /\ Count(proc.calls, "_status") = 3
    /\ proc.current = PAUSED

\* A start call has ended.
StartEnded == proc.op = "start" /\ proc.pc = "idle"

\* C30: when start has returned or raised, every libvirt connection it
\* opened has been closed.
C30_StartClosesItsConnections ==
    StartEnded => Count(proc.calls, "open") = Count(proc.calls, "close")

\* The events instance i is to receive: every event of the stream, in
\* order, but no call after the call at which it asked for no more.
EventsFor(r, i) ==
    SelectSeq([e \in 1..Len(r.stream) |-> e],
              LAMBDA e : r.stream[e] = "call" =>
                             (r.stopped[i] = 0 \/ e <= r.stopped[i]))

\* The instances of the findings.
Found(r) == {r.findings[k] : k \in DOMAIN r.findings}

\* C24: when the analysis is done, every instance that did not fault has
\* received every event of the stream in order and on_complete, whatever
\* faults other instances had, and is among the findings if it matched; an
\* instance that faulted is not among the findings; and the analysis ends
\* only after the whole stream was delivered.
C24_FaultIsIsolated ==
    /\ router.phase # "events" => router.pos = Len(router.stream)
    /\ router.phase = "done" =>
        \A i \in DOMAIN Instances :
            IF i \in router.errored THEN i \notin Found(router)
            ELSE /\ router.received[i] = EventsFor(router, i)
                 /\ i \in router.completed
                 /\ i \in router.matched => i \in Found(router)

\* A faulted on event 3; B received the four events and is the finding.
C24_Witness ==
    /\ router.phase = "done"
    /\ router.faults = <<[instance |-> 1, event |-> 3]>>
    /\ router.received[2] = <<1, 2, 3, 4>>
    /\ router.findings = <<2>>

\* The calls of an operation that has only polled the status once.
OnlyPolled == proc.calls = <<"_status", "open", "state", "close">>

\* The operation is past its status test and no wait has polled yet:
\* current is the status its own _status call returned.
FirstPoll == Count(proc.calls, "_status") = 1 /\ proc.current # ""

\* C31: start on a machine whose polled status is not POWEROFF raises
\* CuckooMachineError having reverted no snapshot, and stop on a machine
\* whose polled status is POWEROFF raises CuckooMachineError having
\* destroyed nothing; neither has made any call but the status poll.
C31_WrongPowerStateIsRejected ==
    /\ (proc.op = "start" /\ FirstPoll /\ proc.current # POWEROFF) =>
           /\ proc.pc = "idle"
           /\ raised = "CuckooMachineError"
           /\ Count(proc.calls, "revertToSnapshot") = 0
           /\ OnlyPolled
    /\ (proc.op = "stop" /\ FirstPoll /\ proc.current = POWEROFF) =>
           /\ proc.pc = "idle"
           /\ raised = "CuckooMachineError"
           /\ Count(proc.calls, "destroy") = 0
           /\ OnlyPolled

\* start on a running machine was rejected.
C31_Witness ==
    /\ proc.op = "start" /\ proc.pc = "idle"
    /\ FirstPoll /\ proc.current = RUNNING
    /\ raised = "CuckooMachineError"
    /\ proc.msg = "not been turned off"
    /\ db[proc.label].status = RUNNING

\* A start or stop call has ended.
PowerEnded == proc.op \in {"start", "stop"} /\ proc.pc = "idle"

\* C32: start returns normally only after the status was polled as
\* RUNNING, and stop only after it was polled as POWEROFF; in every other
\* outcome the operation raises.
C32_ReturnsOnlyInTargetState ==
    (PowerEnded /\ raised = "none") =>
        /\ proc.current \in proc.states
        /\ proc.states = (IF proc.op = "start" THEN {RUNNING} ELSE {POWEROFF})

\* A shutdown call has ended.
ShutdownEnded == last.op = "shutdown" /\ shut.pc = "idle"

\* C33: shutdown calls stop for every machine that is running, in the
\* order of the list, whatever CuckooMachineError a stop raised: when it
\* has ended, the machines stop was called for are the running ones.
C33_StopsEveryRunningMachine ==
    ShutdownEnded => shut.tried = shut.running

\* C34: shutdown raises CuckooMachineError if it was unable to stop a
\* machine, that is if a stop it called raised CuckooMachineError.
C34_ShutdownRaisesWhenStopFails ==
    (ShutdownEnded /\ shut.warned # <<>>) => raised = "CuckooMachineError"

\* C35: _status either returns running, paused, poweroff or machete
\* (domain state 1 -> running, 3 -> paused, 4 or 5 -> poweroff, any other
\* -> machete), having recorded that status for the label, or raises
\* CuckooMachineError, also when libvirt reports an empty state; it fails
\* with no other kind of error.
C35_StatusOrMachineError ==
    last.op = "_status" =>
        LET state == last.arg.reply.state
        IN  \/ /\ raised = "none"
               /\ state # <<>>
               /\ proc.current =
                      (CASE state[1] = 1 -> "running"
                         [] state[1] = 3 -> "paused"
                         [] state[1] \in {4, 5} -> "poweroff"
                         [] OTHER -> "machete")
               /\ db[proc.label].status = proc.current
            \/ raised = "CuckooMachineError"

\* C36: entries is the raw log of submissions.  Every call of add, also
\* one that raises, appends its fragment at the end of entries, once,
\* whatever entries holds already, and no other call changes entries: the
\* length of entries is the number of add calls made so far.
C36_EntriesIsTheRawLog ==
    [][IF last'.op = "add"
       THEN entries' = Append(entries, last'.arg)
       ELSE entries' = entries]_vars

\* The same fragment was added twice, then one without family, which
\* raised; a lookup followed.
C36_Witness ==
    /\ Len(entries) = 3
    /\ entries[1] = entries[2]
    /\ HasKey(entries[1], "family")
    /\ ~HasKey(entries[3], "family")
    /\ Len(order) = 1
    /\ last.op = "get"

====
